---- MODULE Spec2Model ----
(***************************************************************************)
(* Job-step manager of slurmctld (src/slurmctld/step_mgr.c): one job with  *)
(* a fixed allocation, its step registry and its per-node CPU / memory /   *)
(* core accounting, driven by step_create, job_step_complete,              *)
(* step_partial_comp, step_epilog_complete, job_step_signal, the           *)
(* time-limit sweep, suspend and resume.                                   *)
(***************************************************************************)
EXTENDS Integers, Sequences, FiniteSets, TLC

VARIABLES
    job_state,          \* base state of the job record
    up_node_bitmap,     \* nodes currently up (global up_node_bitmap)
    core_bitmap,        \* job_resrcs->core_bitmap: cores the job owns
    mem_resv,           \* value cached by _is_mem_resv()
    cpus_used,          \* job_resrcs->cpus_used[node_inx]
    memory_used,        \* job_resrcs->memory_used[node_inx]
    core_bitmap_used,   \* job_resrcs->core_bitmap_used
    step_list,          \* job_ptr->step_list, in insertion order
    next_step_id,       \* job_ptr->next_step_id
    last_core_inx,      \* static last_core_inx of _pick_step_cores
    now,                \* the clock, what time(NULL) returns
    suspend_time,       \* job_ptr->suspend_time
    agent_queue,        \* requests handed to agent_queue_request
    job_configuring,    \* JOB_CONFIGURING flag of job_ptr->job_state
    prolog_running,     \* job_ptr->details->prolog_running
    node_waiting,       \* nodes with the POWER_SAVE or NO_RESPOND flag
    end_time,           \* job_ptr->end_time
    job_time_limit,     \* job_ptr->time_limit, minutes
    derived_ec,         \* job_ptr->derived_ec
    last_call           \* the last call that left a trace, and its return code

vars == <<job_state, up_node_bitmap, core_bitmap, mem_resv, cpus_used,
          memory_used, core_bitmap_used, step_list, next_step_id,
          last_core_inx, now, suspend_time, agent_queue, job_configuring,
          prolog_running, node_waiting, end_time, job_time_limit,
          derived_ec, last_call>>

\* the fields of the job record that only the first-step check of the
\* node picker and job_step_complete read or write
job_vars == <<job_configuring, prolog_running, node_waiting, end_time,
              job_time_limit, derived_ec>>

(***************************************************************************)
(* Bounds of the model                                                     *)
(***************************************************************************)
\* step ids handed out above each starting value of next_step_id
MaxCreates == 2
\* steps in the registry at one time
MaxLive == 2
\* largest num_tasks of a request
MaxTasks == 2

(***************************************************************************)
(* Program constants                                                       *)
(***************************************************************************)
\* TLC's integers are 32 bits wide, so the program's 32-bit words are
\* modelled 16 bits wide: unsigned values live in 0 .. WordRange - 1, signed
\* values in -HalfRange .. HalfRange - 1, and the sentinels keep their
\* distance from the top of the unsigned range.
WordRange == 2 ^ 16
HalfRange == 2 ^ 15
NO_VAL == WordRange - 2
INFINITE == WordRange - 1
\* next_step_id values from here on are reserved (0xfffffff0)
STEP_ID_LIMIT == WordRange - 16

\* return codes
SLURM_SUCCESS == "SLURM_SUCCESS"
SLURM_ERROR == "SLURM_ERROR"
ESLURM_INVALID_JOB_ID == "ESLURM_INVALID_JOB_ID"
ESLURM_USER_ID_MISSING == "ESLURM_USER_ID_MISSING"
ESLURM_ALREADY_DONE == "ESLURM_ALREADY_DONE"
ESLURM_DISABLED == "ESLURM_DISABLED"
ESLURM_DUPLICATE_JOB_ID == "ESLURM_DUPLICATE_JOB_ID"
ESLURM_ACCESS_DENIED == "ESLURM_ACCESS_DENIED"
ESLURM_BAD_TASK_COUNT == "ESLURM_BAD_TASK_COUNT"
ESLURM_INVALID_NODE_COUNT == "ESLURM_INVALID_NODE_COUNT"
ESLURM_NODES_BUSY == "ESLURM_NODES_BUSY"
ESLURM_PROLOG_RUNNING == "ESLURM_PROLOG_RUNNING"
ESLURM_NODE_NOT_AVAIL == "ESLURM_NODE_NOT_AVAIL"
ESLURM_REQUESTED_NODE_CONFIG_UNAVAILABLE == "ESLURM_REQUESTED_NODE_CONFIG_UNAVAILABLE"
ESLURM_INVALID_TASK_MEMORY == "ESLURM_INVALID_TASK_MEMORY"
ESLURM_TOO_MANY_REQUESTED_CPUS == "ESLURM_TOO_MANY_REQUESTED_CPUS"
ESLURM_INVALID_TIME_LIMIT == "ESLURM_INVALID_TIME_LIMIT"
ESLURM_INTERCONNECT_FAILURE == "ESLURM_INTERCONNECT_FAILURE"
ESLURM_PORTS_BUSY == "ESLURM_PORTS_BUSY"
ESLURMD_TOOMANYSTEPS == "ESLURMD_TOOMANYSTEPS"
ESLURM_JOB_PENDING == "ESLURM_JOB_PENDING"
ESLURM_TRANSITION_STATE_NO_UPDATE == "ESLURM_TRANSITION_STATE_NO_UPDATE"
EINVAL == "EINVAL"

(***************************************************************************)
(* The job's allocation: two nodes of two sockets with two cores each; the *)
(* job owns every node and has one CPU per owned core.                     *)
(***************************************************************************)
Nodes == {0, 1}
SocketIds == {0, 1}
CoreIds == {0, 1}
sockets == Cardinality(SocketIds)
cores == Cardinality(CoreIds)
AllCoreBits == 0 .. (Cardinality(Nodes) * sockets * cores - 1)
node_bitmap == Nodes
memory_allocated == [n \in Nodes |-> 8]
JOB_OWNER == "owner"
\* the clock when the model starts, seconds
Epoch == 1000
\* the time limit of the job, minutes
JobTimeLimit == 100

\* bit of (node, socket, core) in the job's core bitmaps: nodes in job
\* order, sockets within a node, cores within a socket
get_job_resources_offset(node_inx, sock_inx, core_inx) ==
    node_inx * (sockets * cores) + sock_inx * cores + core_inx

NodeCoreBits(n) ==
    { get_job_resources_offset(n, s, c) : s \in SocketIds, c \in CoreIds }

\* job_resrcs->cpus[node_inx]
cpus(cb) == [n \in Nodes |-> Cardinality(cb \cap NodeCoreBits(n))]

\* job_resrcs->cpu_array_cnt == 1: every node has the same CPU count
cpu_array_cnt_is_1(cb) == \A n, m \in Nodes : cpus(cb)[n] = cpus(cb)[m]

\* job_ptr->total_cpus
total_cpus(cb) == Cardinality(cb)

(***************************************************************************)
(* C integer arithmetic                                                    *)
(***************************************************************************)
ToU32(x) == x % WordRange
ToI32(u) == IF ToU32(u) >= HalfRange THEN ToU32(u) - WordRange ELSE ToU32(u)
\* C division truncates toward zero
CDiv(a, b) == IF a >= 0 THEN a \div b ELSE 0 - ((0 - a) \div b)
MIN(a, b) == IF a < b THEN a ELSE b
MAX(a, b) == IF a > b THEN a ELSE b
\* MIN(int, uint32_t) assigned to an int: compared as unsigned
MinIU(a, b) == IF ToU32(a) < b THEN a ELSE ToI32(b)

(***************************************************************************)
(* Bitmaps are sets of bit indexes                                         *)
(***************************************************************************)
RECURSIVE FirstBits(_, _)
FirstBits(b, n) ==
    IF n = 0 \/ b = {} THEN {}
    ELSE LET f == CHOOSE x \in b : \A y \in b : x <= y
         IN  {f} \cup FirstBits(b \ {f}, n - 1)

\* bit_pick_cnt: the first nbits set bits of b; NULL when b has fewer
bit_pick_cnt_ok(b, nbits) == Cardinality(b) >= nbits
bit_pick_cnt(b, nbits) == FirstBits(b, nbits)

\* position of node i among the nodes of bitmap b (bit_get_pos_num)
bit_get_pos_num(b, i) == Cardinality({ x \in b : x < i })

\* the nodes of b in ascending order
RECURSIVE BitSeq(_)
BitSeq(b) ==
    IF b = {} THEN << >>
    ELSE LET f == CHOOSE x \in b : \A y \in b : x <= y
         IN  <<f>> \o BitSeq(b \ {f})

RECURSIVE SumSeq(_)
SumSeq(s) == IF s = << >> THEN 0 ELSE Head(s) + SumSeq(Tail(s))

(***************************************************************************)
(* Step requests (job_step_create_request_msg_t and what the plugins       *)
(* called by step_create answer for it)                                    *)
(***************************************************************************)
StepReq(u, b, e, o, nt, cc, mn, mx, mpc, nl, rel, ext) ==
    [user_id |-> u, batch_step |-> b, exclusive |-> e, overcommit |-> o,
     num_tasks |-> nt, cpu_count |-> cc, min_nodes |-> mn, max_nodes |-> mx,
     mem_per_cpu |-> mpc, node_list |-> nl, relative |-> rel, ext |-> ext,
     time_limit |-> NO_VAL, no_kill |-> 0]

(***************************************************************************)
(* gres_plugin_step_test for a step that requests no generic resources     *)
(***************************************************************************)
gres_plugin_step_test == NO_VAL

(***************************************************************************)
(* _pick_step_nodes, exclusive mode: lines 571-694                         *)
(***************************************************************************)
\* an iteration that goes on picking nodes beyond max_nodes
ExclNode_no_node_limit(st, spec, cpus_per_task, selected, i, acc) ==
    IF i \notin acc.nodes_avail THEN acc      \* node now DOWN
    ELSE
    LET avail_cpus == cpus(st.core_bitmap)[i] - st.cpus_used[i]
        total_cpus_ == cpus(st.core_bitmap)[i]
        avail_tasks0 == IF cpus_per_task > 0
                        THEN CDiv(avail_cpus, cpus_per_task)
                        ELSE spec.num_tasks
        total_tasks0 == IF cpus_per_task > 0
                        THEN CDiv(total_cpus_, cpus_per_task)
                        ELSE spec.num_tasks
        avail_mem == ToU32(memory_allocated[i] - st.memory_used[i])
        task_cnt_a0 == ToI32(avail_mem \div MAX(1, spec.mem_per_cpu))
        task_cnt_a == IF cpus_per_task > 0
                      THEN CDiv(task_cnt_a0, cpus_per_task) ELSE task_cnt_a0
        total_mem == memory_allocated[i]
        task_cnt_t0 == ToI32(total_mem \div MAX(1, spec.mem_per_cpu))
        task_cnt_t == IF cpus_per_task > 0
                      THEN CDiv(task_cnt_t0, cpus_per_task) ELSE task_cnt_t0
        avail_tasks1 == IF spec.mem_per_cpu # 0
                        THEN MIN(avail_tasks0, task_cnt_a) ELSE avail_tasks0
        total_tasks1 == IF spec.mem_per_cpu # 0
                        THEN MIN(total_tasks0, task_cnt_t) ELSE total_tasks0
        gres_cnt == IF cpus_per_task > 0
                    THEN gres_plugin_step_test \div cpus_per_task
                    ELSE gres_plugin_step_test
        avail_tasks == MinIU(avail_tasks1, gres_cnt)
        total_tasks == MinIU(total_tasks1, gres_cnt)
    IN  IF \/ avail_tasks <= 0
           \/ /\ selected = {}
              /\ acc.nodes_picked_cnt >= spec.min_nodes
              /\ acc.tasks_picked_cnt > 0
              /\ acc.tasks_picked_cnt >= spec.num_tasks
        THEN [acc EXCEPT !.nodes_avail = @ \ {i},
                         !.total_task_cnt = ToU32(@ + total_tasks)]
        ELSE [acc EXCEPT !.nodes_picked_cnt = @ + 1,
                         !.tasks_picked_cnt = ToU32(@ + avail_tasks),
                         !.total_task_cnt = ToU32(@ + total_tasks)]

\* one iteration of the loop over the job's nodes
ExclNode(st, spec, cpus_per_task, selected, i, acc) ==
    IF i \notin acc.nodes_avail THEN acc      \* node now DOWN
    ELSE
    LET avail_cpus == cpus(st.core_bitmap)[i] - st.cpus_used[i]
        total_cpus_ == cpus(st.core_bitmap)[i]
        avail_tasks0 == IF cpus_per_task > 0
                        THEN CDiv(avail_cpus, cpus_per_task)
                        ELSE spec.num_tasks
        total_tasks0 == IF cpus_per_task > 0
                        THEN CDiv(total_cpus_, cpus_per_task)
                        ELSE spec.num_tasks
        avail_mem == ToU32(memory_allocated[i] - st.memory_used[i])
        task_cnt_a0 == ToI32(avail_mem \div MAX(1, spec.mem_per_cpu))
        task_cnt_a == IF cpus_per_task > 0
                      THEN CDiv(task_cnt_a0, cpus_per_task) ELSE task_cnt_a0
        total_mem == memory_allocated[i]
        task_cnt_t0 == ToI32(total_mem \div MAX(1, spec.mem_per_cpu))
        task_cnt_t == IF cpus_per_task > 0
                      THEN CDiv(task_cnt_t0, cpus_per_task) ELSE task_cnt_t0
        avail_tasks1 == IF spec.mem_per_cpu # 0
                        THEN MIN(avail_tasks0, task_cnt_a) ELSE avail_tasks0
        total_tasks1 == IF spec.mem_per_cpu # 0
                        THEN MIN(total_tasks0, task_cnt_t) ELSE total_tasks0
        gres_cnt == IF cpus_per_task > 0
                    THEN gres_plugin_step_test \div cpus_per_task
                    ELSE gres_plugin_step_test
        avail_tasks == MinIU(avail_tasks1, gres_cnt)
        total_tasks == MinIU(total_tasks1, gres_cnt)
    IN  IF spec.max_nodes # 0 /\ acc.nodes_picked_cnt >= spec.max_nodes
        THEN [acc EXCEPT !.nodes_avail = @ \ {i}]
        ELSE IF \/ avail_tasks <= 0
                \/ /\ selected = {}
                   /\ acc.nodes_picked_cnt >= spec.min_nodes
                   /\ acc.tasks_picked_cnt > 0
                   /\ acc.tasks_picked_cnt >= spec.num_tasks
        THEN [acc EXCEPT !.nodes_avail = @ \ {i},
                         !.total_task_cnt = ToU32(@ + total_tasks)]
        ELSE [acc EXCEPT !.nodes_picked_cnt = @ + 1,
                         !.tasks_picked_cnt = ToU32(@ + avail_tasks),
                         !.total_task_cnt = ToU32(@ + total_tasks)]

RECURSIVE ExclLoop(_, _, _, _, _, _)
ExclLoop(st, spec, cpus_per_task, selected, todo, acc) ==
    IF todo = << >> THEN acc
    ELSE ExclLoop(st, spec, cpus_per_task, selected, Tail(todo),
                  ExclNode(st, spec, cpus_per_task, selected, Head(todo), acc))

\* result of _pick_step_nodes: the return code, the node bitmap (when the
\* code is SLURM_SUCCESS) and the request's min_nodes as the picker left it
PickResult(rc, nodeset, mn) == [rc |-> rc, nodeset |-> nodeset, min_nodes |-> mn]

\* what an operation returns: its return code and the job record after it
CreateResult(rc, st) == [rc |-> rc, st |-> st]

\* an exclusive picker that does not look at the CPUs in use
PickExclusive_debits_ignored(st, spec, cpus_per_task) ==
    LET selected == spec.node_list
        nodes_avail0 == node_bitmap \cap st.up_node_bitmap
        acc == ExclLoop([st EXCEPT !.cpus_used = [n \in Nodes |-> 0]],
                        spec, cpus_per_task, selected, BitSeq(node_bitmap),
                        [nodes_avail |-> nodes_avail0, nodes_picked_cnt |-> 0,
                         tasks_picked_cnt |-> 0, total_task_cnt |-> 0])
        tasks_picked_cnt == IF selected # {} /\ selected # acc.nodes_avail
                            THEN 0 ELSE acc.tasks_picked_cnt
    IN  IF selected # {} /\ ~(selected \subseteq node_bitmap)
        THEN PickResult(ESLURM_REQUESTED_NODE_CONFIG_UNAVAILABLE, {}, spec.min_nodes)
        ELSE IF selected # {} /\ ~(selected \subseteq st.up_node_bitmap)
        THEN PickResult(ESLURM_REQUESTED_NODE_CONFIG_UNAVAILABLE, {}, spec.min_nodes)
        ELSE IF tasks_picked_cnt >= spec.num_tasks
        THEN PickResult(SLURM_SUCCESS, acc.nodes_avail, spec.min_nodes)
        ELSE IF acc.total_task_cnt >= spec.num_tasks
        THEN PickResult(ESLURM_NODES_BUSY, {}, spec.min_nodes)
        ELSE PickResult(ESLURM_REQUESTED_NODE_CONFIG_UNAVAILABLE, {}, spec.min_nodes)

PickExclusive(st, spec, cpus_per_task) ==
    LET selected == spec.node_list
        nodes_avail0 == node_bitmap \cap st.up_node_bitmap
        acc == ExclLoop(st, spec, cpus_per_task, selected, BitSeq(node_bitmap),
                        [nodes_avail |-> nodes_avail0, nodes_picked_cnt |-> 0,
                         tasks_picked_cnt |-> 0, total_task_cnt |-> 0])
        tasks_picked_cnt == IF selected # {} /\ selected # acc.nodes_avail
                            THEN 0 ELSE acc.tasks_picked_cnt
    IN  IF selected # {} /\ ~(selected \subseteq node_bitmap)
        THEN PickResult(ESLURM_REQUESTED_NODE_CONFIG_UNAVAILABLE, {}, spec.min_nodes)
        ELSE IF selected # {} /\ ~(selected \subseteq st.up_node_bitmap)
        THEN PickResult(ESLURM_REQUESTED_NODE_CONFIG_UNAVAILABLE, {}, spec.min_nodes)
        ELSE IF tasks_picked_cnt >= spec.num_tasks
        THEN PickResult(SLURM_SUCCESS, acc.nodes_avail, spec.min_nodes)
        ELSE IF acc.total_task_cnt >= spec.num_tasks
        THEN PickResult(ESLURM_NODES_BUSY, {}, spec.min_nodes)
        ELSE PickResult(ESLURM_REQUESTED_NODE_CONFIG_UNAVAILABLE, {}, spec.min_nodes)

(***************************************************************************)
(* _pick_step_nodes, usable CPUs under the memory limit: lines 696-771     *)
(***************************************************************************)
\* one iteration of the loop that fills usable_cpu_cnt[]
UsableNode(st, spec, cpus_per_task, i, acc) ==
    IF i \notin acc.nodes_avail \/ acc.failed THEN acc    \* node now DOWN
    ELSE
    LET total_cpus0 == cpus(st.core_bitmap)[i]
        tmp_mem_t == memory_allocated[i]
        total_cpus_ == IF spec.mem_per_cpu # 0
                       THEN MIN(total_cpus0, tmp_mem_t \div spec.mem_per_cpu)
                       ELSE total_cpus0
        tmp_mem_a == ToU32(tmp_mem_t - st.memory_used[i])
        avail_cpus == IF spec.mem_per_cpu # 0
                         /\ (tmp_mem_a \div spec.mem_per_cpu) < total_cpus0
                      THEN tmp_mem_a \div spec.mem_per_cpu
                      ELSE total_cpus0
        avail_tasks == IF cpus_per_task > 0
                       THEN avail_cpus \div cpus_per_task ELSE avail_cpus
        total_tasks == IF cpus_per_task > 0
                       THEN total_cpus_ \div cpus_per_task ELSE total_cpus_
        acc1 == [acc EXCEPT !.usable_cpu_cnt[i] = avail_cpus]
    IN  IF avail_tasks # 0 THEN acc1
        ELSE IF spec.min_nodes = INFINITE
        THEN [acc1 EXCEPT !.failed = TRUE,
                          !.rc = IF total_tasks = 0
                                 THEN ESLURM_INVALID_TASK_MEMORY
                                 ELSE ESLURM_NODES_BUSY]
        ELSE [acc1 EXCEPT !.nodes_avail = @ \ {i},
                          !.mem_blocked_nodes = @ + 1,
                          !.mem_blocked_cpus = @ + (total_cpus_ - avail_cpus)]

RECURSIVE UsableLoop(_, _, _, _, _)
UsableLoop(st, spec, cpus_per_task, todo, acc) ==
    IF todo = << >> THEN acc
    ELSE UsableLoop(st, spec, cpus_per_task, Tail(todo),
                    UsableNode(st, spec, cpus_per_task, Head(todo), acc))

\* _count_cpus: CPUs of the nodes of bitmap, by usable_cpu_cnt[] when the
\* picker built it and by job_resrcs->cpus[] otherwise
_count_cpus(st, bitmap, have_usable, usable_cpu_cnt) ==
    SumSeq([k \in 1 .. Cardinality(bitmap) |->
               IF have_usable THEN usable_cpu_cnt[BitSeq(bitmap)[k]]
               ELSE cpus(st.core_bitmap)[BitSeq(bitmap)[k]]])

\* the while loop of lines 993-1022: add nodes until the CPU count is met
RECURSIVE AddNodesLoop(_, _, _, _, _)
AddNodesLoop(st, spec, have_usable, usable_cpu_cnt, p) ==
    IF ~(spec.cpu_count > p.cpus_picked_cnt) \/ p.nodes_avail = {}
    THEN p
    ELSE LET node_tmp == bit_pick_cnt(p.nodes_avail, 1)
             cpu_cnt == _count_cpus(st, node_tmp, have_usable, usable_cpu_cnt)
         IN  IF cpu_cnt = 0
             THEN AddNodesLoop(st, spec, have_usable, usable_cpu_cnt,
                               [p EXCEPT !.nodes_avail = @ \ node_tmp])
             ELSE LET q == [p EXCEPT
                               !.nodes_picked = @ \cup node_tmp,
                               !.nodes_avail = @ \ node_tmp,
                               !.nodes_picked_cnt = @ + 1,
                               !.min_nodes = IF @ # 0 THEN p.nodes_picked_cnt + 1
                                             ELSE @,
                               !.cpus_picked_cnt = @ + cpu_cnt]
                  IN  IF spec.max_nodes # 0
                         /\ q.nodes_picked_cnt >= spec.max_nodes
                      THEN q
                      ELSE AddNodesLoop(st, spec, have_usable, usable_cpu_cnt, q)

(***************************************************************************)
(* _pick_step_nodes, non-exclusive mode: lines 696-1058.  Each stage takes *)
(* the picker's local variables as a record p and returns them updated;    *)
(* p.fail is set by a "goto cleanup" or an early error return, with p.rc   *)
(* the return code set so far.                                             *)
(***************************************************************************)
\* lines 778-868: the named node list seeds nodes_picked
StageNodeList(spec, p) ==
    LET selected_nodes == spec.node_list
        node_cnt == IF p.min_nodes # 0 \/ spec.max_nodes # 0
                    THEN Cardinality(selected_nodes) ELSE 0
    IN  IF selected_nodes = {} THEN p
        ELSE IF ~(selected_nodes \subseteq node_bitmap)
        THEN [p EXCEPT !.fail = TRUE]
        ELSE IF ~(selected_nodes \subseteq p.nodes_avail)
        THEN [p EXCEPT !.fail = TRUE, !.rc = ESLURM_INVALID_TASK_MEMORY]
        ELSE IF spec.max_nodes # 0 /\ node_cnt > spec.max_nodes
        THEN [p EXCEPT !.fail = TRUE]
        ELSE IF p.min_nodes # 0 /\ node_cnt > p.min_nodes
        THEN [p EXCEPT !.nodes_avail = selected_nodes]
        ELSE [p EXCEPT !.nodes_picked = selected_nodes,
                       !.nodes_avail = @ \ selected_nodes]

\* nodes in the step_node_bitmap of some step of the job
RECURSIVE StepNodesUnion(_)
StepNodesUnion(sl) ==
    IF sl = << >> THEN {}
    ELSE Head(sl).step_node_bitmap \cup StepNodesUnion(Tail(sl))

\* lines 870-905: the relative offset, or else the idle nodes
StageRelative(st, spec, p) ==
    IF p.fail THEN p
    ELSE IF spec.relative # NO_VAL
    THEN IF ~bit_pick_cnt_ok(p.nodes_avail, spec.relative)
         THEN [p EXCEPT !.fail = TRUE]
         ELSE [p EXCEPT !.nodes_avail =
                            @ \ bit_pick_cnt(p.nodes_avail, spec.relative)]
    ELSE [p EXCEPT !.have_idle = TRUE,
                   !.nodes_idle = p.nodes_avail \ StepNodesUnion(st.step_list)]

\* lines 917-936: a CPU count on a homogeneous job becomes a node count
StageCpuToNodes(st, spec, p) ==
    IF p.fail THEN p
    ELSE IF spec.cpu_count # 0 /\ cpu_array_cnt_is_1(st.core_bitmap)
               /\ cpus(st.core_bitmap)[0] # 0
    THEN LET v == cpus(st.core_bitmap)[0]
             i == (spec.cpu_count + (v - 1)) \div v
             mn == IF i > p.min_nodes THEN i ELSE p.min_nodes
         IN  IF spec.max_nodes # 0 /\ spec.max_nodes < mn
             THEN [p EXCEPT !.min_nodes = mn, !.fail = TRUE,
                            !.rc = ESLURM_TOO_MANY_REQUESTED_CPUS]
             ELSE [p EXCEPT !.min_nodes = mn]
    ELSE p

\* lines 938-982: top up to min_nodes, from the idle nodes first
StageMinNodes(st, p0) ==
    IF p0.fail \/ p0.min_nodes = 0 THEN p0
    ELSE
    LET cnt0 == Cardinality(p0.nodes_picked)
        from_idle == p0.have_idle
                     /\ Cardinality(p0.nodes_idle) >= p0.min_nodes
                     /\ p0.min_nodes > cnt0
        tmp1 == bit_pick_cnt(p0.nodes_idle, p0.min_nodes - cnt0)
        p1 == IF from_idle
              THEN [p0 EXCEPT !.nodes_picked = @ \cup tmp1,
                              !.nodes_idle = @ \ tmp1,
                              !.nodes_avail = @ \ tmp1,
                              !.nodes_picked_cnt = p0.min_nodes]
              ELSE [p0 EXCEPT !.nodes_picked_cnt = cnt0]
        need == p1.min_nodes - p1.nodes_picked_cnt
        tmp2 == bit_pick_cnt(p1.nodes_avail, need)
    IN  IF ~(p1.min_nodes > p1.nodes_picked_cnt) THEN p1
        ELSE IF ~bit_pick_cnt_ok(p1.nodes_avail, need)
        THEN [p1 EXCEPT
                 !.fail = TRUE,
                 !.rc = IF p1.min_nodes <= Cardinality(p1.nodes_avail)
                               + p1.nodes_picked_cnt + p1.mem_blocked_nodes
                        THEN ESLURM_NODES_BUSY
                        ELSE IF ~(node_bitmap \subseteq st.up_node_bitmap)
                        THEN ESLURM_NODE_NOT_AVAIL
                        ELSE @]
        ELSE [p1 EXCEPT !.nodes_picked = @ \cup tmp2,
                        !.nodes_avail = @ \ tmp2,
                        !.nodes_picked_cnt = p1.min_nodes]

\* lines 984-1043: make sure the picked nodes have enough CPUs
StageCpuCount(st, spec, p0) ==
    IF p0.fail \/ spec.cpu_count = 0 THEN p0
    ELSE
    LET c0 == _count_cpus(st, p0.nodes_picked, p0.have_usable,
                          p0.usable_cpu_cnt)
        p1 == [p0 EXCEPT !.cpus_picked_cnt = c0]
        p2 == IF spec.cpu_count > c0
                 /\ (spec.max_nodes = 0
                     \/ spec.max_nodes > p1.nodes_picked_cnt)
              THEN AddNodesLoop(st, spec, p1.have_usable, p1.usable_cpu_cnt,
                       [p1 EXCEPT !.nodes_picked_cnt =
                                      Cardinality(p1.nodes_picked)])
              ELSE p1
    IN  IF spec.cpu_count > p2.cpus_picked_cnt
        THEN [p2 EXCEPT
                 !.fail = TRUE,
                 !.rc = IF spec.cpu_count <=
                               p2.cpus_picked_cnt + p2.mem_blocked_cpus
                        THEN ESLURM_NODES_BUSY
                        ELSE IF ~(node_bitmap \subseteq st.up_node_bitmap)
                        THEN ESLURM_NODE_NOT_AVAIL
                        ELSE @]
        ELSE p2

PickNonExclusive(st, spec, cpus_per_task) ==
    LET acc0 == [nodes_avail |-> node_bitmap \cap st.up_node_bitmap,
                 usable_cpu_cnt |-> [n \in Nodes |-> 0],
                 mem_blocked_nodes |-> 0, mem_blocked_cpus |-> 0,
                 failed |-> FALSE, rc |-> SLURM_SUCCESS]
        have_usable == spec.mem_per_cpu # 0 /\ st.mem_resv
        u == IF have_usable
             THEN UsableLoop(st, spec, cpus_per_task, BitSeq(node_bitmap), acc0)
             ELSE acc0
        p0 == [fail |-> FALSE, rc |-> SLURM_SUCCESS,
               nodes_avail |-> u.nodes_avail, nodes_picked |-> {},
               have_idle |-> FALSE, nodes_idle |-> {},
               min_nodes |-> spec.min_nodes,
               nodes_picked_cnt |-> 0, cpus_picked_cnt |-> 0,
               have_usable |-> have_usable,
               usable_cpu_cnt |-> u.usable_cpu_cnt,
               mem_blocked_nodes |-> u.mem_blocked_nodes,
               mem_blocked_cpus |-> u.mem_blocked_cpus]
        p == StageCpuCount(st, spec,
               StageMinNodes(st,
                 StageCpuToNodes(st, spec,
                   StageRelative(st, spec,
                     StageNodeList(spec, p0)))))
    IN  IF u.failed THEN PickResult(u.rc, {}, spec.min_nodes)
        ELSE IF spec.min_nodes = INFINITE        \* use all nodes
        THEN PickResult(SLURM_SUCCESS, u.nodes_avail, spec.min_nodes)
        ELSE IF p.fail
        THEN PickResult(IF p.rc = SLURM_SUCCESS
                        THEN ESLURM_REQUESTED_NODE_CONFIG_UNAVAILABLE
                        ELSE p.rc, {}, p.min_nodes)
        ELSE PickResult(SLURM_SUCCESS, p.nodes_picked, p.min_nodes)

\* the check made for the first step of a job, while next_step_id is 0:
\* lines 539-566.  A running prolog or a job node that is powered down or
\* not responding turns the request down, the latter moving the end time
\* of the job; otherwise the job is no longer configuring.
_first_step_check(st) ==
    IF st.next_step_id # 0 THEN CreateResult(SLURM_SUCCESS, st)
    ELSE IF st.prolog_running THEN CreateResult(ESLURM_PROLOG_RUNNING, st)
    ELSE IF node_bitmap \cap st.node_waiting # {}
    THEN CreateResult(ESLURM_NODES_BUSY,
             [st EXCEPT !.end_time = IF st.job_time_limit # INFINITE
                                     THEN st.now + st.job_time_limit * 60
                                     ELSE @])
    ELSE CreateResult(SLURM_SUCCESS, [st EXCEPT !.job_configuring = FALSE])

\* the job record as _pick_step_nodes leaves it: lines 516-566
AfterPick(st, spec) ==
    IF spec.max_nodes # 0 /\ spec.max_nodes < spec.min_nodes THEN st
    ELSE _first_step_check(st).st

\* _pick_step_nodes: lines 493-1058
_pick_step_nodes(st, spec, cpus_per_task) ==
    IF spec.max_nodes # 0 /\ spec.max_nodes < spec.min_nodes
    THEN PickResult(ESLURM_INVALID_NODE_COUNT, {}, spec.min_nodes)
    ELSE IF _first_step_check(st).rc # SLURM_SUCCESS
    THEN PickResult(_first_step_check(st).rc, {}, spec.min_nodes)
    ELSE IF spec.exclusive
    THEN PickExclusive(st, spec, cpus_per_task)
    ELSE PickNonExclusive(st, spec, cpus_per_task)

(***************************************************************************)
(* Task layout.  slurm_step_layout_create places num_tasks on node_cnt     *)
(* nodes: one task per node and cycle while the node has a CPU set left    *)
(* for it, then, when every node is full, one task per node and cycle.     *)
(***************************************************************************)
RECURSIVE OverSubscribe(_, _, _)
OverSubscribe(tasks, rem, i) ==
    IF rem = 0 THEN tasks
    ELSE OverSubscribe([tasks EXCEPT ![i] = @ + 1], rem - 1,
                       IF i = Len(tasks) THEN 1 ELSE i + 1)

RECURSIVE TaskCycle(_, _, _, _, _)
TaskCycle(cpusv, tasks, rem, j, i) ==
    IF rem = 0 THEN tasks
    ELSE IF i > Len(cpusv)
    THEN IF \A k \in 1 .. Len(cpusv) : j + 1 >= cpusv[k]
         THEN OverSubscribe(tasks, rem, 1)
         ELSE TaskCycle(cpusv, tasks, rem, j + 1, 1)
    ELSE IF j < cpusv[i]
    THEN TaskCycle(cpusv, [tasks EXCEPT ![i] = @ + 1], rem - 1, j, i + 1)
    ELSE TaskCycle(cpusv, tasks, rem, j, i + 1)

\* layout: NULL (ok = FALSE) or the per-node task counts
NoLayout == [ok |-> FALSE, node_cnt |-> 0, tasks |-> << >>]

slurm_step_layout_create(host_cnt, cpus_per_node, node_count, num_tasks, cpus_per_task) ==
    IF node_count > host_cnt THEN NoLayout   \* host list shorter than asked
    ELSE LET cpt == IF cpus_per_task < 1 THEN 1 ELSE cpus_per_task
             cpusv == [k \in 1 .. node_count |->
                          MAX(1, cpus_per_node[k] \div cpt)]
         IN  [ok |-> TRUE, node_cnt |-> node_count,
              tasks |-> TaskCycle(cpusv, [k \in 1 .. node_count |-> 0],
                                  num_tasks, 0, 1)]

\* usable CPUs of job node pos for the step: lines 1765-1784
LayoutUsableCpus(st, exclusive, mem_per_cpu, pos) ==
    LET u0 == IF exclusive
              THEN cpus(st.core_bitmap)[pos] - st.cpus_used[pos]
              ELSE cpus(st.core_bitmap)[pos]
        usable_mem == ToI32(ToU32(memory_allocated[pos] - st.memory_used[pos])
                            \div MAX(1, mem_per_cpu))
        u1 == IF mem_per_cpu # 0 /\ st.mem_resv THEN MIN(u0, usable_mem) ELSE u0
    IN  MinIU(u1, gres_plugin_step_test)

\* step_layout_create: lines 1720-1840
step_layout_create(st, exclusive, mem_per_cpu, step_node_bitmap, node_count, num_tasks, cpus_per_task) ==
    LET hosts == BitSeq(step_node_bitmap)
        set_nodes == MIN(node_count, Len(hosts))
        cpus_per_node == [k \in 1 .. set_nodes |->
                             LayoutUsableCpus(st, exclusive, mem_per_cpu,
                                              hosts[k])]
    IN  IF \E k \in 1 .. set_nodes : cpus_per_node[k] <= 0
        THEN NoLayout                     \* no usable cpus
        ELSE slurm_step_layout_create(Len(hosts), cpus_per_node, node_count,
                                      num_tasks, cpus_per_task)

(***************************************************************************)
(* _pick_step_cores: lines 1112-1192                                       *)
(***************************************************************************)
\* a walk with the socket index major and the core index minor
CoreWalk_socket_major(n, core_order) ==
    [k \in 1 .. (Len(core_order) * sockets) |->
        get_job_resources_offset(n, (k - 1) \div Len(core_order),
                                 core_order[((k - 1) % Len(core_order)) + 1])]

\* bit offsets of node n with the core index major and the socket minor,
\* the core indexes taken in the order of core_order
CoreWalk(n, core_order) ==
    [k \in 1 .. (Len(core_order) * sockets) |->
        get_job_resources_offset(n, (k - 1) % sockets,
                                 core_order[((k - 1) \div sockets) + 1])]

\* a first pass that takes idle cores without asking whether the job owns
\* them
RECURSIVE FirstPass_any_core(_, _, _, _)
FirstPass_any_core(job_cb, use_all_cores, walk, a) ==
    IF walk = << >> \/ a.done THEN a
    ELSE LET bit_offset == Head(walk)
         IN  IF ~use_all_cores /\ bit_offset \in a.used
             THEN FirstPass_any_core(job_cb, use_all_cores, Tail(walk), a)
             ELSE FirstPass_any_core(job_cb, use_all_cores, Tail(walk),
                      [used |-> a.used \cup {bit_offset},
                       step_cb |-> a.step_cb \cup {bit_offset},
                       cpu_cnt |-> a.cpu_cnt - 1,
                       done |-> (a.cpu_cnt - 1 = 0)])

\* "select idle cores first": lines 1136-1161
RECURSIVE FirstPass(_, _, _, _)
FirstPass(job_cb, use_all_cores, walk, a) ==
    IF walk = << >> \/ a.done THEN a
    ELSE LET bit_offset == Head(walk)
         IN  IF bit_offset \notin job_cb
             THEN FirstPass(job_cb, use_all_cores, Tail(walk), a)
             ELSE IF ~use_all_cores /\ bit_offset \in a.used
             THEN FirstPass(job_cb, use_all_cores, Tail(walk), a)
             ELSE FirstPass(job_cb, use_all_cores, Tail(walk),
                      [used |-> a.used \cup {bit_offset},
                       step_cb |-> a.step_cb \cup {bit_offset},
                       cpu_cnt |-> a.cpu_cnt - 1,
                       done |-> (a.cpu_cnt - 1 = 0)])

\* over-subscription of cores: lines 1165-1192
RECURSIVE SecondPass(_, _, _)
SecondPass(job_cb, walk, a) ==
    IF walk = << >> \/ a.done THEN a
    ELSE LET bit_offset == Head(walk)
         IN  IF bit_offset \notin job_cb
             THEN SecondPass(job_cb, Tail(walk), a)
             ELSE IF bit_offset \in a.step_cb   \* already taken by this step
             THEN SecondPass(job_cb, Tail(walk), a)
             ELSE SecondPass(job_cb, Tail(walk),
                      [a EXCEPT !.step_cb = @ \cup {bit_offset},
                                !.cpu_cnt = @ - 1,
                                !.done = (a.cpu_cnt - 1 = 0)])

\* c is [used, step_cb, last_core_inx]: core_bitmap_used, the step's
\* core_bitmap_job and the static last_core_inx
_pick_step_cores(job_cb, cpus_per_task, job_node_inx, task_cnt, c) ==
    LET use_all_cores == (task_cnt = cores * sockets)
        cpu_cnt == IF cpus_per_task > 0 THEN task_cnt * cpus_per_task
                   ELSE task_cnt
        a1 == FirstPass(job_cb, use_all_cores,
                        CoreWalk(job_node_inx, [k \in 1 .. cores |-> k - 1]),
                        [used |-> c.used, step_cb |-> c.step_cb,
                         cpu_cnt |-> cpu_cnt, done |-> FALSE])
        last == (c.last_core_inx + 1) % cores
        a2 == SecondPass(job_cb,
                         CoreWalk(job_node_inx,
                                  [k \in 1 .. cores |-> (last + k - 1) % cores]),
                         a1)
    IN  IF a1.done \/ use_all_cores
        THEN [used |-> a1.used, step_cb |-> a1.step_cb,
              last_core_inx |-> c.last_core_inx]
        ELSE [used |-> a2.used, step_cb |-> a2.step_cb,
              last_core_inx |-> last]

(***************************************************************************)
(* The job record as the operations see it                                 *)
(***************************************************************************)
State == [job_state |-> job_state, up_node_bitmap |-> up_node_bitmap,
          core_bitmap |-> core_bitmap, mem_resv |-> mem_resv,
          cpus_used |-> cpus_used, memory_used |-> memory_used,
          core_bitmap_used |-> core_bitmap_used, step_list |-> step_list,
          next_step_id |-> next_step_id, last_core_inx |-> last_core_inx,
          now |-> now, suspend_time |-> suspend_time,
          agent_queue |-> agent_queue,
          job_configuring |-> job_configuring,
          prolog_running |-> prolog_running,
          node_waiting |-> node_waiting, end_time |-> end_time,
          job_time_limit |-> job_time_limit, derived_ec |-> derived_ec]

\* slurmctld_conf.max_tasks_per_node
max_tasks_per_node == 128

(***************************************************************************)
(* step_alloc_lps: lines 1196-1283                                         *)
(***************************************************************************)
\* a debit of one task's CPUs whatever the number of tasks on the node
cpus_alloc_one_task(step, k) == step.cpus_per_task

\* CPUs the step holds on its k-th node
cpus_alloc(step, k) == step.tasks[k] * step.cpus_per_task

\* the step nodes the allocation loops visit: the loops stop at step node
\* index node_cnt - 1
LpsNodes(step) ==
    SubSeq(BitSeq(step.step_node_bitmap), 1,
           MIN(step.node_cnt, Cardinality(step.step_node_bitmap)))

RECURSIVE AllocLoop(_, _, _, _, _)
AllocLoop(step, pick_step_cores, hosts, k, a) ==
    IF k > Len(hosts) THEN a
    ELSE LET n == hosts[k]
             c == IF pick_step_cores
                  THEN _pick_step_cores(a.core_bitmap, step.cpus_per_task, n,
                                        step.tasks[k],
                                        [used |-> a.core_bitmap_used,
                                         step_cb |-> a.step_cb,
                                         last_core_inx |-> a.last_core_inx])
                  ELSE [used |-> a.core_bitmap_used, step_cb |-> a.step_cb,
                        last_core_inx |-> a.last_core_inx]
         IN  AllocLoop(step, pick_step_cores, hosts, k + 1,
                 [a EXCEPT
                    !.cpus_used[n] = ToU32(@ + cpus_alloc(step, k)),
                    !.memory_used[n] =
                        IF step.mem_per_cpu # 0 /\ a.mem_resv
                        THEN ToU32(@ + step.mem_per_cpu * cpus_alloc(step, k))
                        ELSE @,
                    !.core_bitmap_used = c.used,
                    !.step_cb = c.step_cb,
                    !.last_core_inx = c.last_core_inx])

\* the state after step_alloc_lps for the last step of the list; cpu_count
\* is step_ptr->cpu_count, the CPU count of the request as it came in
step_alloc_lps(st, cpu_count) ==
    LET step == st.step_list[Len(st.step_list)]
        copy_all == ~step.exclusive
                    \/ cpu_count = total_cpus(st.core_bitmap)
        pick_step_cores == ~step.have_core_bitmap /\ ~copy_all
        a0 == [cpus_used |-> st.cpus_used, memory_used |-> st.memory_used,
               core_bitmap_used |-> st.core_bitmap_used,
               core_bitmap |-> st.core_bitmap, mem_resv |-> st.mem_resv,
               last_core_inx |-> st.last_core_inx,
               step_cb |-> IF ~step.have_core_bitmap /\ copy_all
                           THEN st.core_bitmap ELSE step.core_bitmap_job]
        a == AllocLoop(step, pick_step_cores, LpsNodes(step), 1, a0)
    IN  IF ~step.have_layout THEN st       \* batch step
        ELSE [st EXCEPT
                 !.cpus_used = a.cpus_used,
                 !.memory_used = a.memory_used,
                 !.core_bitmap_used = a.core_bitmap_used,
                 !.last_core_inx = a.last_core_inx,
                 !.step_list[Len(st.step_list)] =
                     [step EXCEPT !.have_core_bitmap = TRUE,
                                  !.core_bitmap_job = a.step_cb]]

(***************************************************************************)
(* _step_dealloc_lps: lines 1324-1404                                      *)
(***************************************************************************)
RECURSIVE DeallocLoop(_, _, _, _)
DeallocLoop(step, hosts, k, a) ==
    IF k > Len(hosts) THEN a
    ELSE LET n == hosts[k]
             mem_use == ToU32(step.mem_per_cpu * cpus_alloc(step, k))
         IN  DeallocLoop(step, hosts, k + 1,
                 [a EXCEPT
                    !.cpus_used[n] = IF @ >= cpus_alloc(step, k)
                                     THEN @ - cpus_alloc(step, k)
                                     ELSE 0,      \* cpu underflow
                    !.memory_used[n] =
                        IF step.mem_per_cpu # 0 /\ a.mem_resv
                        THEN IF @ >= mem_use THEN @ - mem_use
                             ELSE 0               \* mem underflow
                        ELSE @])

\* a release that gives back the CPUs and the memory but leaves the step's
\* cores marked as used
_step_dealloc_lps_cores_kept(st, pos) ==
    LET step == st.step_list[pos]
        a == DeallocLoop(step, LpsNodes(step), 1,
                 [cpus_used |-> st.cpus_used, memory_used |-> st.memory_used,
                  mem_resv |-> st.mem_resv])
    IN  IF ~step.have_layout THEN st
        ELSE [st EXCEPT
                 !.cpus_used = a.cpus_used,
                 !.memory_used = a.memory_used,
                 !.step_list[pos] =
                     [step EXCEPT !.have_core_bitmap = FALSE,
                                  !.core_bitmap_job = {}]]

\* the state after _step_dealloc_lps for the step at position pos
_step_dealloc_lps(st, pos) ==
    LET step == st.step_list[pos]
        a == DeallocLoop(step, LpsNodes(step), 1,
                 [cpus_used |-> st.cpus_used, memory_used |-> st.memory_used,
                  mem_resv |-> st.mem_resv])
    IN  IF ~step.have_layout THEN st       \* batch step
        ELSE [st EXCEPT
                 !.cpus_used = a.cpus_used,
                 !.memory_used = a.memory_used,
                 !.core_bitmap_used =
                     IF step.have_core_bitmap
                     THEN @ \ step.core_bitmap_job ELSE @,
                 !.step_list[pos] =
                     [step EXCEPT !.have_core_bitmap = FALSE,
                                  !.core_bitmap_job = {}]]

(***************************************************************************)
(* The step registry                                                       *)
(***************************************************************************)
\* position of the first step with this id, or of the first step when
\* step_id is NO_VAL; 0 when there is none
find_step_record(sl, step_id) ==
    LET hits == { i \in 1 .. Len(sl) :
                     sl[i].step_id = step_id \/ step_id = NO_VAL }
    IN  IF hits = {} THEN 0 ELSE CHOOSE i \in hits : \A j \in hits : i <= j

\* position of the record delete_step_record removes; 0 is ENOENT
DeletePos(sl, step_id) ==
    LET hits == { i \in 1 .. Len(sl) : sl[i].step_id = step_id }
    IN  IF hits = {} THEN 0 ELSE CHOOSE i \in hits : \A j \in hits : i <= j

RemoveAt(sl, pos) ==
    [k \in 1 .. (Len(sl) - 1) |-> IF k < pos THEN sl[k] ELSE sl[k + 1]]

\* a delete_step_record that finds the record and leaves it in the list
delete_step_record_kept(sl, step_id) == sl

\* delete_step_record: lines 192-226
delete_step_record(sl, step_id) ==
    IF DeletePos(sl, step_id) = 0 THEN sl
    ELSE RemoveAt(sl, DeletePos(sl, step_id))

(***************************************************************************)
(* step_create: lines 1430-1718                                            *)
(***************************************************************************)
\* the request after the overcommit normalisation of lines 1504-1512
NormSpec(req) ==
    IF req.overcommit
    THEN IF req.exclusive
         THEN [req EXCEPT !.overcommit = FALSE, !.cpu_count = req.num_tasks]
         ELSE [req EXCEPT !.cpu_count = 0]
    ELSE req

\* a division that does not ask whether the CPUs spread evenly
CpusPerTask_rounds_down(spec) ==
    IF spec.cpu_count = 0 THEN 0
    ELSE MAX(1, spec.cpu_count \div spec.num_tasks)

\* cpus_per_task, "by reversing what srun does": lines 1518-1527
CpusPerTask(spec) ==
    IF spec.cpu_count = 0 \/ spec.cpu_count % spec.num_tasks # 0 THEN 0
    ELSE MAX(1, spec.cpu_count \div spec.num_tasks)

\* no_kill is a flag: lines 1529-1530
NoKill(no_kill) == IF no_kill > 1 THEN 1 ELSE no_kill

\* the time limit recorded for a step: lines 1636-1653
StepTimeLimit(time_limit) ==
    IF time_limit = NO_VAL \/ time_limit = 0 \/ time_limit = INFINITE
    THEN INFINITE ELSE time_limit

\* _create_step_record and the fields step_create fills in before the
\* layout is built: lines 101-127 and 1575-1653
NewStepRecord(st, req, spec, cpus_per_task, nodeset) ==
    [step_id |-> st.next_step_id,
     step_node_bitmap |-> nodeset,
     batch_step |-> req.batch_step,
     exclusive |-> spec.exclusive,
     cpus_per_task |-> cpus_per_task,
     mem_per_cpu |-> spec.mem_per_cpu,
     exit_code |-> NO_VAL,
     start_time |-> st.now,
     time_limit |-> StepTimeLimit(req.time_limit),
     pre_sus_time |-> 0, tot_sus_time |-> 0,
     requid |-> "-1",                 \* uid of the canceller, -1: none
     jobacct |-> 0,                   \* accounting aggregated so far
     no_kill |-> NoKill(req.no_kill),
     overcommit |-> req.overcommit,   \* the flag as requested (history)
     have_layout |-> FALSE, node_cnt |-> 0, tasks |-> << >>,
     have_core_bitmap |-> FALSE, core_bitmap_job |-> {},
     switch_job |-> FALSE,
     have_exit_bitmap |-> FALSE,      \* exit_node_bitmap is not NULL
     exit_node_bitmap |-> {},         \* the bits set, step node indexes
     exit_bits |-> 0,                 \* _bitstr_bits(exit_node_bitmap)
     switch_released |-> 0]           \* full switch releases so far (history)

\* a limit test that lets the id 0xfffffff0 itself through
StepIdsExhausted_late(id) == id > STEP_ID_LIMIT

\* _create_step_record refuses when the step ids are used up: line 108
StepIdsExhausted(id) == id >= STEP_ID_LIMIT

\* a record creation that does not advance next_step_id
_create_step_record_same_id(st, rec) ==
    [st EXCEPT !.step_list = Append(@, rec)]

\* _create_step_record appends the record, and step_create gives it the
\* next step id: lines 114-127 and 1575
_create_step_record(st, rec) ==
    [st EXCEPT !.step_list = Append(@, rec),
               !.next_step_id = ToU32(@ + 1)]

\* the part of step_create after the step record is in the list
CreateTail(st1, req, pick, cpus_per_task) ==
    LET step == st1.step_list[Len(st1.step_list)]
        rolled_back == [st1 EXCEPT !.step_list =
                            delete_step_record(st1.step_list, step.step_id)]
        layout == step_layout_create(st1, step.exclusive, step.mem_per_cpu,
                                     step.step_node_bitmap, pick.min_nodes,
                                     req.num_tasks, cpus_per_task)
        st2 == [st1 EXCEPT !.step_list[Len(st1.step_list)] =
                    [step EXCEPT !.have_layout = TRUE,
                                 !.node_cnt = layout.node_cnt,
                                 !.tasks = layout.tasks,
                                 !.switch_job = TRUE]]
    IN  IF req.ext = "time_limit"
        THEN CreateResult(ESLURM_INVALID_TIME_LIMIT, rolled_back)
        ELSE IF req.batch_step
        THEN CreateResult(SLURM_SUCCESS, st1)
        ELSE IF ~layout.ok
        THEN CreateResult(IF req.mem_per_cpu # 0
                          THEN ESLURM_INVALID_TASK_MEMORY ELSE SLURM_ERROR,
                          rolled_back)
        ELSE IF req.ext = "resv_port"
        THEN CreateResult(ESLURM_PORTS_BUSY, rolled_back)
        ELSE IF req.ext = "switch"
        THEN CreateResult(ESLURM_INTERCONNECT_FAILURE, rolled_back)
        ELSE CreateResult(SLURM_SUCCESS, step_alloc_lps(st2, req.cpu_count))

\* a creation that does not compare the requesting user with the owner
step_create_any_user(st, req) ==
    LET spec == NormSpec(req)
        cpus_per_task == CpusPerTask(spec)
        pick == _pick_step_nodes(st, spec, cpus_per_task)
        node_count == Cardinality(pick.nodeset)
        st0 == AfterPick(st, spec)
        st1 == _create_step_record(st0, NewStepRecord(st0, req, spec,
                                            cpus_per_task, pick.nodeset))
    IN  IF st.job_state = "SUSPENDED" THEN CreateResult(ESLURM_DISABLED, st)
        ELSE IF st.job_state = "PENDING"
        THEN CreateResult(ESLURM_DUPLICATE_JOB_ID, st)
        ELSE IF st.job_state # "RUNNING" \/ st.end_time <= st.now
        THEN CreateResult(ESLURM_ALREADY_DONE, st)
        ELSE IF req.num_tasks < 1
        THEN CreateResult(ESLURM_BAD_TASK_COUNT, st)
        ELSE IF pick.rc # SLURM_SUCCESS THEN CreateResult(pick.rc, st0)
        ELSE IF req.num_tasks > node_count * max_tasks_per_node
        THEN CreateResult(ESLURM_BAD_TASK_COUNT, st0)
        ELSE IF StepIdsExhausted(st.next_step_id)
        THEN CreateResult(ESLURMD_TOOMANYSTEPS, st0)
        ELSE CreateTail(st1, req, pick, cpus_per_task)

\* step_create: lines 1430-1718
step_create(st, req) ==
    LET spec == NormSpec(req)
        cpus_per_task == CpusPerTask(spec)
        pick == _pick_step_nodes(st, spec, cpus_per_task)
        node_count == Cardinality(pick.nodeset)
        st0 == AfterPick(st, spec)
        st1 == _create_step_record(st0, NewStepRecord(st0, req, spec,
                                            cpus_per_task, pick.nodeset))
    IN  IF st.job_state = "SUSPENDED" THEN CreateResult(ESLURM_DISABLED, st)
        ELSE IF st.job_state = "PENDING"
        THEN CreateResult(ESLURM_DUPLICATE_JOB_ID, st)
        ELSE IF req.user_id # JOB_OWNER
        THEN CreateResult(ESLURM_ACCESS_DENIED, st)
        ELSE IF st.job_state # "RUNNING" \/ st.end_time <= st.now
        THEN CreateResult(ESLURM_ALREADY_DONE, st)
        ELSE IF req.num_tasks < 1
        THEN CreateResult(ESLURM_BAD_TASK_COUNT, st)
        ELSE IF pick.rc # SLURM_SUCCESS THEN CreateResult(pick.rc, st0)
        ELSE IF req.num_tasks > node_count * max_tasks_per_node
        THEN CreateResult(ESLURM_BAD_TASK_COUNT, st0)
        ELSE IF StepIdsExhausted(st.next_step_id)
        THEN CreateResult(ESLURMD_TOOMANYSTEPS, st0)
        ELSE CreateTail(st1, req, pick, cpus_per_task)

(***************************************************************************)
(* job_step_complete: lines 440-478                                        *)
(***************************************************************************)
job_step_complete(st, step_id, uid) ==
    LET pos == find_step_record(st.step_list, step_id)
        st0 == [st EXCEPT !.derived_ec =
                    MAX(@, st.step_list[pos].exit_code)]
        st1 == _step_dealloc_lps(st0, pos)
    IN  IF uid # JOB_OWNER /\ uid # "root"
        THEN CreateResult(ESLURM_USER_ID_MISSING, st)
        ELSE IF pos = 0
        THEN CreateResult(ESLURM_INVALID_JOB_ID, st)
        ELSE IF DeletePos(st1.step_list, step_id) = 0
        THEN CreateResult(ESLURM_ALREADY_DONE, st1)
        ELSE CreateResult(SLURM_SUCCESS,
                 [st1 EXCEPT !.step_list = delete_step_record(@, step_id)])

(***************************************************************************)
(* Inputs                                                                  *)
(***************************************************************************)
\* an ordinary request of the job's owner
OwnerReq(e, o, nt, cc, mn, mx, mpc, nl, rel) ==
    StepReq(JOB_OWNER, FALSE, e, o, nt, cc, mn, mx, mpc, nl, rel, "ok")

\* steps of one task and of MaxTasks tasks with one CPU per task
TaskRequests ==
    { OwnerReq(e, FALSE, nt, nt, 1, 0, 0, {}, NO_VAL) :
        e \in BOOLEAN, nt \in {1, MaxTasks} }

\* exclusive steps with no CPU count and with two CPUs per task
CpuCountRequests ==
    { OwnerReq(TRUE, FALSE, MaxTasks, cc, 1, 0, 0, {}, NO_VAL) :
        cc \in {0, 2 * MaxTasks} }

\* steps that ask for two nodes, that name a node, that cap the node count
NodeRequests ==
    { OwnerReq(e, FALSE, MaxTasks, MaxTasks, 2, 0, 0, {}, NO_VAL) :
        e \in BOOLEAN }
    \cup { OwnerReq(FALSE, FALSE, MaxTasks, MaxTasks, 1, 0, 0, {1}, NO_VAL),
           OwnerReq(TRUE, FALSE, MaxTasks, MaxTasks, 1, 1, 0, {}, NO_VAL) }

\* steps with a memory limit per CPU
MemoryRequests ==
    { OwnerReq(e, FALSE, MaxTasks, 2 * MaxTasks, 1, 0, 3, {}, NO_VAL) :
        e \in BOOLEAN }

\* steps with the overcommit flag
OvercommitRequests ==
    { OwnerReq(e, TRUE, 2 * MaxTasks, 2 * MaxTasks, 1, 0, 0, {}, NO_VAL) :
        e \in BOOLEAN }

\* a step with a relative node offset
RelativeRequests ==
    { OwnerReq(FALSE, FALSE, 1, 1, 1, 0, 0, {}, 1) }

\* a batch step
BatchRequests ==
    { StepReq(JOB_OWNER, TRUE, FALSE, FALSE, 1, 0, INFINITE, 0, 0, {},
              NO_VAL, "ok") }

\* requests that one of the collaborators of step_create turns down, and
\* a request of another user
RefusedRequests ==
    { StepReq(JOB_OWNER, FALSE, FALSE, FALSE, 1, 1, 1, 0, 0, {}, NO_VAL, ext) :
        ext \in {"time_limit", "resv_port", "switch"} }
    \cup { StepReq("other", FALSE, FALSE, FALSE, 1, 1, 1, 0, 0, {}, NO_VAL,
                   "ok") }

\* requests that step_create or the node picker rejects: no task, more
\* nodes than the job has, more CPUs than the job has
InvalidRequests ==
    { OwnerReq(FALSE, FALSE, 0, 0, 1, 0, 0, {}, NO_VAL) }
    \cup { OwnerReq(e, FALSE, 1, 1, 3, 0, 0, {}, NO_VAL) : e \in BOOLEAN }
    \cup { OwnerReq(e, FALSE, 1, 9, 1, 0, 0, {}, NO_VAL) : e \in BOOLEAN }

Requests == TaskRequests \cup CpuCountRequests \cup NodeRequests
                \cup MemoryRequests \cup OvercommitRequests
                \cup RelativeRequests \cup BatchRequests \cup RefusedRequests
                \cup InvalidRequests

\* step ids a completion may name
StepIdInputs ==
    { step_list[i].step_id : i \in 1 .. Len(step_list) }
        \cup {next_step_id, NO_VAL}

\* the jobs the model starts from: a new job that owns every core of its
\* nodes, with memory reserved; a job that owns all cores but one, without
\* memory reservation, and that has nearly used up its step ids; and jobs
\* that are not running
Job(js, up, cb, mr, id) ==
    [job_state |-> js, up_node_bitmap |-> up, core_bitmap |-> cb,
     mem_resv |-> mr, next_step_id |-> id]

Jobs ==
    { Job("RUNNING", Nodes, AllCoreBits, TRUE, 0),
      Job("RUNNING", Nodes,
          AllCoreBits \ {get_job_resources_offset(1, 0, 0)}, FALSE,
          STEP_ID_LIMIT - MaxCreates) }
    \cup { Job(js, Nodes, AllCoreBits, TRUE, 0) :
             js \in {"PENDING", "SUSPENDED", "COMPLETE"} }

(***************************************************************************)
(* The state machine                                                       *)
(***************************************************************************)
\* a job whose nodes were up and responding when it was allocated: not
\* configuring, no prolog running, ending JobTimeLimit minutes after its
\* start, no step exit code seen yet
JobReady ==
    /\ job_configuring = FALSE
    /\ prolog_running = FALSE
    /\ node_waiting = {}
    /\ end_time = Epoch + JobTimeLimit * 60
    /\ job_time_limit = JobTimeLimit
    /\ derived_ec = 0

Init ==
    /\ \E j \in Jobs :
          /\ job_state = j.job_state
          /\ up_node_bitmap = j.up_node_bitmap
          /\ core_bitmap = j.core_bitmap
          /\ mem_resv = j.mem_resv
          /\ next_step_id = j.next_step_id
    /\ cpus_used = [n \in Nodes |-> 0]
    /\ memory_used = [n \in Nodes |-> 0]
    /\ core_bitmap_used = {}
    /\ step_list = << >>
    /\ last_core_inx = 0
    /\ now = Epoch
    /\ suspend_time = 0
    /\ agent_queue = {}
    /\ JobReady
    /\ last_call = [op |-> "none", rc |-> SLURM_SUCCESS]

\* last_call after a call: the call and its return code, when the call
\* succeeded or changed the job record; a call that failed and changed
\* nothing leaves no trace
Trace(st, op, r) ==
    IF r.rc # SLURM_SUCCESS /\ r.st = st THEN last_call
    ELSE [op |-> op, rc |-> r.rc]

\* the job record takes the values of st
Becomes(st) ==
    /\ cpus_used' = st.cpus_used
    /\ memory_used' = st.memory_used
    /\ core_bitmap_used' = st.core_bitmap_used
    /\ step_list' = st.step_list
    /\ next_step_id' = st.next_step_id
    /\ last_core_inx' = st.last_core_inx
    /\ UNCHANGED <<job_state, up_node_bitmap, core_bitmap, mem_resv>>
    /\ job_configuring' = st.job_configuring
    /\ end_time' = st.end_time
    /\ derived_ec' = st.derived_ec
    /\ UNCHANGED <<now, suspend_time, agent_queue>>
    /\ UNCHANGED <<prolog_running, node_waiting, job_time_limit>>

\* the model calls step_create while the job has fewer than MaxLive steps
\* and next_step_id is within MaxCreates of one of its starting values
WithinBounds ==
    /\ Len(step_list) < MaxLive
    /\ \/ next_step_id < MaxCreates
       \/ /\ next_step_id >= STEP_ID_LIMIT - MaxCreates
          /\ next_step_id <= STEP_ID_LIMIT

StepCreate ==
    \E req \in Requests :
        /\ WithinBounds
        /\ \E r \in {step_create(State, req)} :
               /\ Becomes(r.st)
               /\ last_call' = Trace(State, "step_create", r)

JobStepComplete ==
    \E step_id \in StepIdInputs, uid \in {JOB_OWNER, "other"} :
        \E r \in {job_step_complete(State, step_id, uid)} :
            /\ Becomes(r.st)
            /\ last_call' = Trace(State, "job_step_complete", r)

Next == StepCreate \/ JobStepComplete

Spec == Init /\ [][Next]_vars

(***************************************************************************)
(* What the live steps hold                                                *)
(***************************************************************************)
\* CPUs step_alloc_lps debited on job node n for this step: tasks[k] *
\* cpus_per_task for the step node k that is n
StepCpusOn(step, n) ==
    IF ~step.have_layout THEN 0
    ELSE SumSeq([k \in 1 .. Len(LpsNodes(step)) |->
                    IF LpsNodes(step)[k] = n THEN cpus_alloc(step, k) ELSE 0])

LiveCpus(n) ==
    SumSeq([i \in 1 .. Len(step_list) |-> StepCpusOn(step_list[i], n)])

LiveMemory(n) ==
    SumSeq([i \in 1 .. Len(step_list) |->
               step_list[i].mem_per_cpu * StepCpusOn(step_list[i], n)])

LiveCores ==
    UNION { step_list[i].core_bitmap_job : i \in 1 .. Len(step_list) }

StepIds == { step_list[i].step_id : i \in 1 .. Len(step_list) }

Created == last_call.op = "step_create" /\ last_call.rc = SLURM_SUCCESS
Completed == last_call.op = "job_step_complete" /\ last_call.rc = SLURM_SUCCESS

(***************************************************************************)
(* Accounting                                                              *)
(***************************************************************************)
\* C1: on every node, cpus_used is the sum over the live steps of
\* tasks[n] * cpus_per_task, and, when the job reserves memory, memory_used
\* is the sum of mem_per_cpu * tasks[n] * cpus_per_task
AccountingMatchesLiveSteps ==
    \A n \in Nodes :
        /\ cpus_used[n] = LiveCpus(n)
        /\ mem_resv => memory_used[n] = LiveMemory(n)

\* C2: whenever the step list is empty, whatever creations and completions
\* came before, every cpus_used and every memory_used is zero and
\* core_bitmap_used is empty
EmptyStepListReleasesAll ==
    step_list = << >> =>
        /\ \A n \in Nodes : cpus_used[n] = 0 /\ memory_used[n] = 0
        /\ core_bitmap_used = {}

\* the last step of a job has just completed
LastStepCompleted == Completed /\ step_list = << >>

(***************************************************************************)
(* Failing creations                                                       *)
(***************************************************************************)
\* C3: a step_create that returns an error, from whichever check or
\* collaborator, leaves the step list, cpus_used, memory_used and
\* core_bitmap_used exactly as they were before the call (checked for
\* every request in every state in which the model calls step_create)
FailedCreateChangesNothing ==
    WithinBounds => \A req \in Requests :
        \E r \in {step_create(State, req)} :
            r.rc # SLURM_SUCCESS =>
                /\ r.st.step_list = step_list
                /\ r.st.cpus_used = cpus_used
                /\ r.st.memory_used = memory_used
                /\ r.st.core_bitmap_used = core_bitmap_used

\* a creation has failed after its step record was in the list, while
\* another step holds resources
CreateFailedAfterRecord ==
    /\ last_call.op = "step_create"
    /\ last_call.rc \in {ESLURM_INVALID_TIME_LIMIT, ESLURM_PORTS_BUSY,
                         ESLURM_INTERCONNECT_FAILURE, SLURM_ERROR,
                         ESLURM_INVALID_TASK_MEMORY}
    /\ step_list # << >>
    /\ core_bitmap_used # {}

(***************************************************************************)
(* Cores                                                                   *)
(***************************************************************************)
\* C4: core_bitmap_used is the union of core_bitmap_job over the live steps,
\* so every core of a live step's core_bitmap_job, the non-exclusive steps
\* included, is set in core_bitmap_used
UsedCoresAreLiveStepCores == core_bitmap_used = LiveCores

\* C5: core_bitmap_used is always a subset of the job's core_bitmap: no
\* creation, over-subscription pass or completion marks a core the job does
\* not own
UsedCoresAreJobCores == core_bitmap_used \subseteq core_bitmap

\* an exclusive step holds a core on a node where the job does not own the
\* first core the picker looks at
StepCoresBesideForeignCore ==
    /\ get_job_resources_offset(1, 0, 0) \notin core_bitmap
    /\ core_bitmap_used \cap NodeCoreBits(1) # {}

(***************************************************************************)
(* Allocation limits                                                       *)
(***************************************************************************)
\* no live step with a node on n was created with the overcommit flag
NoOvercommitOn(n) ==
    \A i \in 1 .. Len(step_list) :
        n \in step_list[i].step_node_bitmap => ~step_list[i].overcommit

\* C6: on a node that no live overcommit step touches, cpus_used is at most
\* the CPUs the job has on the node, whatever mix of exclusive and
\* non-exclusive steps is live
CpusUsedWithinAllocation ==
    \A n \in Nodes :
        NoOvercommitOn(n) => cpus_used[n] <= cpus(core_bitmap)[n]

\* C7: when the job reserves memory, memory_used is at most
\* memory_allocated on every node
MemoryUsedWithinAllocation ==
    mem_resv => \A n \in Nodes : memory_used[n] <= memory_allocated[n]

(***************************************************************************)
(* Step ids                                                                *)
(***************************************************************************)
\* the ids of the live steps grow along the step list and lie below
\* next_step_id
StepIdsOrdered ==
    /\ \A i, j \in 1 .. Len(step_list) :
          i < j => step_list[i].step_id < step_list[j].step_id
    /\ \A i \in 1 .. Len(step_list) : step_list[i].step_id < next_step_id

\* C8: the step ids of a job are pairwise distinct and strictly increasing
\* in creation order, completions in between included: next_step_id never
\* goes back, every live id is below it, and a new step gets an id that is
\* at least the next_step_id of before
StepIdsDistinctIncreasing ==
    [][/\ StepIdsOrdered'
       /\ next_step_id' >= next_step_id
       /\ Created' =>
             /\ step_list' # << >>
             /\ step_list'[Len(step_list')].step_id >= next_step_id
             /\ \A id \in StepIds :
                   id < step_list'[Len(step_list')].step_id]_vars

\* a step was created after the step or the failed creation that took the
\* id before its own was gone
CreatedAfterCompletion ==
    /\ Created
    /\ Len(step_list) = 1
    /\ step_list[1].step_id > 0
    /\ step_list[1].step_id < MaxCreates

\* C9: with next_step_id at 0xfffffff0 a request that would otherwise
\* succeed fails with too-many-steps, and every request fails, adds no
\* record and leaves next_step_id and the accounting as they were; no live
\* step has an id of 0xfffffff0 or more
StepIdLimitRefusesCreate ==
    /\ \A id \in StepIds : id < STEP_ID_LIMIT
    /\ (next_step_id = STEP_ID_LIMIT /\ WithinBounds) =>
          \A req \in Requests :
              \E r \in {step_create(State, req)} :
                  /\ r.rc # SLURM_SUCCESS
                  /\ r.st = State
                  /\ r.rc # ESLURMD_TOOMANYSTEPS =>
                        step_create([State EXCEPT !.next_step_id = 0], req).rc
                            # SLURM_SUCCESS

\* the step with the last id below the limit has just been created
LastStepIdTaken ==
    /\ Created
    /\ next_step_id = STEP_ID_LIMIT
    /\ step_list # << >>
    /\ \E req \in Requests :
          step_create(State, req).rc = ESLURMD_TOOMANYSTEPS

(***************************************************************************)
(* Completions                                                             *)
(***************************************************************************)
\* C10: job_step_complete for a step id that is not in the step list, such
\* as the id of a step that has just completed, returns already-done, not
\* invalid-id, and changes no accounting
MissingStepIsAlreadyDone ==
    Completed =>
        \A step_id \in (next_step_id - MaxCreates) .. (next_step_id - 1) :
            (step_id >= 0 /\ step_id \notin StepIds) =>
                /\ job_step_complete(State, step_id, JOB_OWNER).rc
                       = ESLURM_ALREADY_DONE
                /\ job_step_complete(State, step_id, JOB_OWNER).st = State

(***************************************************************************)
(* The node picker with nodes of the job down                              *)
(***************************************************************************)
\* running jobs with memory reserved: every node up, or one node down
PickJobs ==
    { Job("RUNNING", up, AllCoreBits, TRUE, 0) : up \in {Nodes, {0}, {1}} }

\* requests for the node picker: exclusive steps of two CPUs per task and
\* non-exclusive steps of one, on one or two nodes, with and without a node
\* limit, without memory limit, with one that two CPUs of a node use up,
\* and with one above the memory of a node
PickRequests ==
    { OwnerReq(e, FALSE, MaxTasks, IF e THEN 2 * MaxTasks ELSE MaxTasks,
               mn, mx, mpc, {}, NO_VAL) :
        e \in BOOLEAN, mn \in {1, 2}, mx \in {0, 1, 2}, mpc \in {0, 3, 9} }
    \cup { OwnerReq(TRUE, FALSE, 2 * MaxTasks, 4 * MaxTasks, 1, mx, 0, {},
                    NO_VAL) : mx \in {0, 1} }
    \cup { OwnerReq(FALSE, FALSE, MaxTasks, cc, 1, 0, 0, {}, NO_VAL) :
             cc \in {0, 8, 9} }
    \cup { OwnerReq(e, FALSE, 1, 1, 1, 0, 0, {1}, NO_VAL) : e \in BOOLEAN }

InitPick ==
    /\ \E j \in PickJobs :
          /\ job_state = j.job_state
          /\ up_node_bitmap = j.up_node_bitmap
          /\ core_bitmap = j.core_bitmap
          /\ mem_resv = j.mem_resv
          /\ next_step_id = j.next_step_id
    /\ cpus_used = [n \in Nodes |-> 0]
    /\ memory_used = [n \in Nodes |-> 0]
    /\ core_bitmap_used = {}
    /\ step_list = << >>
    /\ last_core_inx = 0
    /\ now = Epoch
    /\ suspend_time = 0
    /\ agent_queue = {}
    /\ JobReady
    /\ last_call = [op |-> "none", rc |-> SLURM_SUCCESS]

PickStepCreate ==
    \E req \in PickRequests :
        /\ WithinBounds
        /\ \E r \in {step_create(State, req)} :
               /\ Becomes(r.st)
               /\ last_call' = Trace(State, "step_create", r)

NextPick == PickStepCreate \/ JobStepComplete

SpecPick == InitPick /\ [][NextPick]_vars

\* the job record with no live step and nothing debited
NoLiveSteps ==
    [State EXCEPT !.step_list = << >>,
                  !.cpus_used = [n \in Nodes |-> 0],
                  !.memory_used = [n \in Nodes |-> 0],
                  !.core_bitmap_used = {}]

ConfigUnavailableIsPermanent ==
    WithinBounds =>
        \A req \in PickRequests :
            \E r \in {step_create(State, req)},
               f \in {step_create(NoLiveSteps, req)} :
                /\ r.rc = ESLURM_REQUESTED_NODE_CONFIG_UNAVAILABLE
                       => f.rc # SLURM_SUCCESS
                /\ (r.rc # SLURM_SUCCESS /\ f.rc = SLURM_SUCCESS)
                       => r.rc = ESLURM_NODES_BUSY

\* avail_tasks (0 when the node has none) and total_tasks of job node i for
\* an exclusive request, as one iteration of the picker's loop computes
\* them for a node it looks at with nothing picked so far
NodeTasks(st, spec, cpus_per_task, i) ==
    ExclNode(st, [spec EXCEPT !.max_nodes = 0], cpus_per_task,
             spec.node_list, i,
             [nodes_avail |-> {i}, nodes_picked_cnt |-> 0,
              tasks_picked_cnt |-> 0, total_task_cnt |-> 0])

\* the nodes the exclusive loop has picked when it ends
ExclPicked(st, spec, cpus_per_task) ==
    ExclLoop(st, spec, cpus_per_task, spec.node_list, BitSeq(node_bitmap),
             [nodes_avail |-> node_bitmap \cap st.up_node_bitmap,
              nodes_picked_cnt |-> 0, tasks_picked_cnt |-> 0,
              total_task_cnt |-> 0]).nodes_avail

\* exclusive requests that pass the picker's admission tests: node limits
\* in order, named nodes up
ExclAdmitted ==
    { req \in PickRequests :
        /\ req.exclusive
        /\ req.max_nodes = 0 \/ req.max_nodes >= req.min_nodes
        /\ req.node_list \subseteq (node_bitmap \cap up_node_bitmap) }

\* C13: in exclusive mode the picker accepts exactly when the avail_tasks
\* of the picked nodes add up to num_tasks or more; when it does not
\* accept, it returns nodes-busy if the total_tasks of all up nodes of the
\* job add up to num_tasks or more and config-unavailable otherwise,
\* whatever max_nodes is
ExclusiveClassification ==
    WithinBounds =>
        \A req \in ExclAdmitted :
            LET spec == NormSpec(req)
                cpt == CpusPerTask(spec)
                pick == _pick_step_nodes(State, spec, cpt)
                picked == BitSeq(ExclPicked(State, spec, cpt))
                up == BitSeq(node_bitmap \cap up_node_bitmap)
                avail == SumSeq([k \in 1 .. Len(picked) |->
                            NodeTasks(State, spec, cpt,
                                      picked[k]).tasks_picked_cnt])
                total == SumSeq([k \in 1 .. Len(up) |->
                            NodeTasks(State, spec, cpt,
                                      up[k]).total_task_cnt])
            IN  /\ pick.rc = SLURM_SUCCESS <=> avail >= spec.num_tasks
                /\ pick.rc # SLURM_SUCCESS =>
                       pick.rc = IF total >= spec.num_tasks
                                 THEN ESLURM_NODES_BUSY
                                 ELSE ESLURM_REQUESTED_NODE_CONFIG_UNAVAILABLE

\* the nodes a non-exclusive request can use and their usable CPUs: what
\* the loop of lines 696-771 leaves when the request has a memory limit
\* and memory is reserved, every up node with all its CPUs otherwise
UsableNodes(st, spec, cpus_per_task) ==
    LET acc0 == [nodes_avail |-> node_bitmap \cap st.up_node_bitmap,
                 usable_cpu_cnt |-> [n \in Nodes |-> 0],
                 mem_blocked_nodes |-> 0, mem_blocked_cpus |-> 0,
                 failed |-> FALSE, rc |-> SLURM_SUCCESS]
    IN  IF spec.mem_per_cpu # 0 /\ st.mem_resv
        THEN UsableLoop(st, spec, cpus_per_task, BitSeq(node_bitmap), acc0)
        ELSE [acc0 EXCEPT !.usable_cpu_cnt = cpus(st.core_bitmap)]

\* the request cannot get min_nodes nodes, or cannot get cpu_count CPUs on
\* any max_nodes of the nodes it can use
ShortOfNodesOrCpus(st, spec, cpus_per_task) ==
    LET u == UsableNodes(st, spec, cpus_per_task)
        sets == { S \in SUBSET u.nodes_avail :
                    spec.max_nodes = 0 \/ Cardinality(S) <= spec.max_nodes }
    IN  \/ Cardinality(u.nodes_avail) < spec.min_nodes
        \/ /\ spec.cpu_count # 0
           /\ \A S \in sets :
                  _count_cpus(st, S, TRUE, u.usable_cpu_cnt) < spec.cpu_count

\* non-exclusive requests that pass the admission tests, name no node and
\* ask for no more CPUs than min_nodes nodes have
NonExclAdmitted ==
    { req \in PickRequests :
        /\ ~req.exclusive
        /\ req.node_list = {}
        /\ req.max_nodes = 0 \/ req.max_nodes >= req.min_nodes
        /\ req.cpu_count <= req.min_nodes * cpus(core_bitmap)[0] }

\* C14: a non-exclusive request that cannot get min_nodes nodes or
\* cpu_count CPUs fails with nodes-busy when the nodes or CPUs it is short
\* of are held back by the debits of live steps (without them it is not
\* short), else with node-not-avail when a node of the job is down, else
\* with config-unavailable
NonExclusiveClassification ==
    WithinBounds =>
        \A req \in NonExclAdmitted :
            LET spec == NormSpec(req)
                cpt == CpusPerTask(spec)
                pick == _pick_step_nodes(State, spec, cpt)
            IN  ShortOfNodesOrCpus(State, spec, cpt) =>
                    pick.rc =
                        IF ~ShortOfNodesOrCpus(NoLiveSteps, spec, cpt)
                        THEN ESLURM_NODES_BUSY
                        ELSE IF ~(node_bitmap \subseteq up_node_bitmap)
                        THEN ESLURM_NODE_NOT_AVAIL
                        ELSE ESLURM_REQUESTED_NODE_CONFIG_UNAVAILABLE

(***************************************************************************)
(* End-to-end scenarios on a job of two nodes, 4 CPUs and 8 GB each,       *)
(* memory reserved (memory is counted in GB)                               *)
(***************************************************************************)
\* an exclusive step of 4 tasks, one CPU per task
ExclusiveFour(mn) == OwnerReq(TRUE, FALSE, 4, 4, mn, 0, 0, {}, NO_VAL)

\* a non-exclusive step of 4 tasks, one CPU per task, 1 GB per CPU
MemoryFour(mn) == OwnerReq(FALSE, FALSE, 4, 4, mn, 0, 1, {}, NO_VAL)

\* a non-exclusive step of 16 tasks on 8 CPUs with the overcommit flag
OvercommitSixteen(mn) == OwnerReq(FALSE, TRUE, 16, 8, mn, 0, 0, {}, NO_VAL)

\* the scenarios leave min_nodes open: one node or both
ScenarioMinNodes == {1, 2}

ScenarioRequests ==
    { ExclusiveFour(mn) : mn \in ScenarioMinNodes }
    \cup { MemoryFour(mn) : mn \in ScenarioMinNodes }
    \cup { OvercommitSixteen(mn) : mn \in ScenarioMinNodes }

InitScenario ==
    /\ job_state = "RUNNING"
    /\ up_node_bitmap = Nodes
    /\ core_bitmap = AllCoreBits
    /\ mem_resv = TRUE
    /\ next_step_id = 0
    /\ cpus_used = [n \in Nodes |-> 0]
    /\ memory_used = [n \in Nodes |-> 0]
    /\ core_bitmap_used = {}
    /\ step_list = << >>
    /\ last_core_inx = 0
    /\ now = Epoch
    /\ suspend_time = 0
    /\ agent_queue = {}
    /\ JobReady
    /\ last_call = [op |-> "none", rc |-> SLURM_SUCCESS]

ScenarioStepCreate ==
    \E req \in ScenarioRequests :
        /\ WithinBounds
        /\ \E r \in {step_create(State, req)} :
               /\ Becomes(r.st)
               /\ last_call' = Trace(State, "step_create", r)

NextScenario == ScenarioStepCreate \/ JobStepComplete

SpecScenario == InitScenario /\ [][NextScenario]_vars

\* the job has no step and nothing is debited
NoStepYet ==
    /\ step_list = << >>
    /\ cpus_used = [n \in Nodes |-> 0]
    /\ memory_used = [n \in Nodes |-> 0]
    /\ core_bitmap_used = {}

\* the job's only step is the step S1 that req creates on the idle job
OnlyStepIs(req) ==
    /\ Len(step_list) = 1
    /\ \E r \in {step_create(NoLiveSteps, req)} :
           /\ r.rc = SLURM_SUCCESS
           /\ [r.st.step_list[1] EXCEPT !.step_id = 0]
                  = [step_list[1] EXCEPT !.step_id = 0]
           /\ r.st.cpus_used = cpus_used
           /\ r.st.memory_used = memory_used
           /\ r.st.core_bitmap_used = core_bitmap_used

\* every CPU of every node of the job is in use
Saturated == \A n \in Nodes : cpus_used[n] >= cpus(core_bitmap)[n]

\* C15 as stated: with the exclusive step S1 (4 tasks, one CPU per task)
\* the only step of the job, a second step_create with the same request
\* fails, with nodes-busy when cpus_used is saturated and with
\* config-unavailable otherwise, and leaves S1's record and the debits
\* alone
SecondExclusiveStepFails ==
    \A mn \in ScenarioMinNodes :
        OnlyStepIs(ExclusiveFour(mn)) =>
            \E r \in {step_create(State, ExclusiveFour(mn))} :
                /\ r.rc = IF Saturated THEN ESLURM_NODES_BUSY
                          ELSE ESLURM_REQUESTED_NODE_CONFIG_UNAVAILABLE
                /\ r.st.step_list = step_list
                /\ r.st.cpus_used = cpus_used
                /\ r.st.memory_used = memory_used

\* C15: with the exclusive step S1 (4 tasks, one CPU per task) the only
\* step of the job, a second step_create with the same request succeeds on
\* the 4 CPUs that S1 left free and leaves S1's record alone; every CPU is
\* then in use, and a third step_create with the same request fails with
\* nodes-busy and changes nothing
SecondExclusiveStepTakesFreeCpus ==
    \A mn \in ScenarioMinNodes :
        OnlyStepIs(ExclusiveFour(mn)) =>
            \E r2 \in {step_create(State, ExclusiveFour(mn))} :
                /\ r2.rc = SLURM_SUCCESS
                /\ Len(r2.st.step_list) = 2
                /\ r2.st.step_list[1] = step_list[1]
                /\ r2.st.cpus_used = cpus(core_bitmap)
                /\ \E r3 \in {step_create(r2.st, ExclusiveFour(mn))} :
                       /\ r3.rc = ESLURM_NODES_BUSY
                       /\ r3.st = r2.st

\* two exclusive steps of 4 tasks each hold all 8 CPUs of the job
TwoExclusiveStepsHoldAllCpus ==
    /\ Created
    /\ Len(step_list) = 2
    /\ \A i \in 1 .. 2 : /\ step_list[i].exclusive
                         /\ step_list[i].cpus_per_task = 1
                         /\ SumSeq(step_list[i].tasks) = 4
    /\ Saturated

\* what the scenario of C16 expects of a non-exclusive step of 4 tasks,
\* one CPU per task and 1 GB per CPU, created with min_nodes mn on the job
\* without steps: both nodes picked, two tasks on each, two CPUs and 2 GB
\* debited on each, and everything zero again once the step has completed
MemoryStepSpreads(mn) ==
    \E r \in {step_create(State, MemoryFour(mn))} :
        /\ r.rc = SLURM_SUCCESS
        /\ LET step == r.st.step_list[1]
               c == job_step_complete(r.st, step.step_id, JOB_OWNER)
           IN  /\ step.step_node_bitmap = Nodes
               /\ step.tasks = <<2, 2>>
               /\ r.st.cpus_used = [n \in Nodes |-> 2]
               /\ r.st.memory_used = [n \in Nodes |-> 2]
               /\ c.rc = SLURM_SUCCESS
               /\ c.st.step_list = << >>
               /\ c.st.cpus_used = [n \in Nodes |-> 0]
               /\ c.st.memory_used = [n \in Nodes |-> 0]

\* C16 as stated: on the job without steps, a non-exclusive step with
\* num_tasks=4, cpus_per_task=1 and mem_per_cpu=1G gets both nodes with
\* tasks=[2,2], cpus_used=[2,2] and memory_used=[2G,2G], and completing it
\* restores the zeros; the statement leaves min_nodes open
MemoryStepOnBothNodes ==
    NoStepYet => \A mn \in ScenarioMinNodes : MemoryStepSpreads(mn)

\* C16: on the job without steps, a non-exclusive step with num_tasks=4,
\* cpus_per_task=1, mem_per_cpu=1G and min_nodes=2 gets both nodes with
\* tasks=[2,2], cpus_used=[2,2] and memory_used=[2G,2G], and completing it
\* restores the zeros
MemoryStepOnTwoRequestedNodes ==
    NoStepYet => MemoryStepSpreads(2)

\* the step of C16 is the only step of the job, two tasks on each node
MemoryStepIsLive ==
    /\ Created
    /\ OnlyStepIs(MemoryFour(2))
    /\ step_list[1].tasks = <<2, 2>>
    /\ memory_used = [n \in Nodes |-> 2]

\* C17: on the job without steps, a non-exclusive step with the overcommit
\* flag, 16 tasks and all 8 CPUs (asked on both nodes) is created with
\* tasks=[8,8] and cpus_used=[4,4], the capacity of the nodes, and without
\* a core picked for it
OvercommitStepWithinCapacity ==
    NoStepYet =>
        \E r \in {step_create(State, OvercommitSixteen(2))} :
            /\ r.rc = SLURM_SUCCESS
            /\ r.st.step_list[1].tasks = <<8, 8>>
            /\ r.st.cpus_used = [n \in Nodes |-> 4]
            /\ r.st.core_bitmap_used = {}

(***************************************************************************)
(* Partial completion: step_partial_comp (lines 2225-2340) and             *)
(* step_epilog_complete (lines 2385-2427)                                  *)
(***************************************************************************)
\* a step_complete_msg_t
CompleteMsg(step_id, first, last, step_rc) ==
    [job_step_id |-> step_id, range_first |-> first, range_last |-> last,
     step_rc |-> step_rc, jobacct |-> 1]

\* jobacct_gather_g_aggregate, for the peak values of an accounting record
\* (the largest value seen is kept); the totals it adds up are left out
jobacct_gather_g_aggregate(jobacct, from) == MAX(jobacct, from)

\* validate_slurm_user
validate_slurm_user(uid) == uid = "root"

\* bit_nset: the bits first .. last
bit_nset(b, first, last) == b \cup (first .. last)

\* a full release that leaves the pointer to the freed jobinfo in place
switch_full_release_keeps_pointer(step) ==
    [step EXCEPT !.switch_released = @ + 1]

\* switch_g_job_step_complete followed by switch_free_jobinfo, and the
\* pointer set to NULL: lines 2313-2317
switch_full_release(step) ==
    [step EXCEPT !.switch_released = @ + 1, !.switch_job = FALSE]

\* full releases fired when the record is deleted: lines 210-215
ReleasesOnDelete(step) == IF step.switch_job THEN 1 ELSE 0

\* result of step_partial_comp: return code, job record, and the OUT
\* parameters rem and max_rc, which only a successful call sets
PartialResult(rc, st, rem, max_rc) ==
    [rc |-> rc, st |-> st, rem |-> rem, max_rc |-> max_rc]

\* a range test that lets the index one past the last node through
RangeLastBeyond_one_past(req, nodes) == req.range_last > nodes

\* the range test of a report, zero origin: lines 2282 and 2293
RangeLastBeyond(req, nodes) == req.range_last >= nodes

\* a batch completion that purges the record, the call left commented out
\* at line 2268
BatchCompletion_removes_record(st, pos, req) ==
    [st EXCEPT !.step_list = RemoveAt(@, pos)]

\* the completion of a batch step: lines 2257-2270
BatchCompletion(st, pos, req) ==
    [st EXCEPT !.step_list[pos].exit_code = req.step_rc,
               !.step_list[pos].jobacct =
                   jobacct_gather_g_aggregate(@, req.jobacct)]

\* a completion whose first report takes exit_code as an earlier value to
\* compare with
step_partial_comp_max_first(st, req, uid) ==
    LET pos == find_step_record(st.step_list, req.job_step_id)
        step0 == st.step_list[pos]
        step == [step0 EXCEPT !.jobacct =
                    jobacct_gather_g_aggregate(@, req.jobacct)]
        nodes == IF step.have_exit_bitmap THEN step.exit_bits
                 ELSE Cardinality(step.step_node_bitmap)
        bits == bit_nset(step.exit_node_bitmap,
                         req.range_first, req.range_last)
        rem_nodes == nodes - Cardinality(bits)
        s1 == [step EXCEPT
                 !.have_exit_bitmap = TRUE,
                 !.exit_bits = nodes,
                 !.exit_node_bitmap = bits,
                 !.exit_code = MAX(step.exit_code, req.step_rc)]
        s2 == IF rem_nodes = 0 /\ s1.switch_job
              THEN switch_full_release(s1) ELSE s1
    IN  IF st.job_state = "PENDING"
        THEN PartialResult(ESLURM_JOB_PENDING, st, "unset", "unset")
        ELSE IF ~validate_slurm_user(uid) /\ uid # JOB_OWNER
        THEN PartialResult(ESLURM_USER_ID_MISSING, st, "unset", "unset")
        ELSE IF pos = 0
        THEN PartialResult(ESLURM_INVALID_JOB_ID, st, "unset", "unset")
        ELSE IF step0.batch_step
        THEN PartialResult(SLURM_SUCCESS, BatchCompletion(st, pos, req),
                 0, req.step_rc)
        ELSE IF req.range_last < req.range_first
        THEN PartialResult(EINVAL, st, "unset", "unset")
        ELSE IF RangeLastBeyond(req, nodes)
        THEN PartialResult(EINVAL, [st EXCEPT !.step_list[pos] = step],
                 "unset", "unset")
        ELSE PartialResult(SLURM_SUCCESS,
                 [st EXCEPT !.step_list[pos] = s2], rem_nodes, s2.exit_code)

\* step_partial_comp: lines 2225-2340.  The partial switch release of a
\* report that leaves nodes pending changes nothing in the job record.
step_partial_comp(st, req, uid) ==
    LET pos == find_step_record(st.step_list, req.job_step_id)
        step0 == st.step_list[pos]
        step == [step0 EXCEPT !.jobacct =
                    jobacct_gather_g_aggregate(@, req.jobacct)]
        nodes == IF step.have_exit_bitmap THEN step.exit_bits
                 ELSE Cardinality(step.step_node_bitmap)
        bits == bit_nset(step.exit_node_bitmap,
                         req.range_first, req.range_last)
        rem_nodes == nodes - Cardinality(bits)
        s1 == [step EXCEPT
                 !.have_exit_bitmap = TRUE,
                 !.exit_bits = nodes,
                 !.exit_node_bitmap = bits,
                 !.exit_code = IF step.have_exit_bitmap
                               THEN MAX(step.exit_code, req.step_rc)
                               ELSE req.step_rc]
        s2 == IF rem_nodes = 0 /\ s1.switch_job
              THEN switch_full_release(s1) ELSE s1
    IN  IF st.job_state = "PENDING"
        THEN PartialResult(ESLURM_JOB_PENDING, st, "unset", "unset")
        ELSE IF ~validate_slurm_user(uid) /\ uid # JOB_OWNER
        THEN PartialResult(ESLURM_USER_ID_MISSING, st, "unset", "unset")
        ELSE IF pos = 0
        THEN PartialResult(ESLURM_INVALID_JOB_ID, st, "unset", "unset")
        ELSE IF step0.batch_step
        THEN PartialResult(SLURM_SUCCESS, BatchCompletion(st, pos, req),
                 0, req.step_rc)
        ELSE IF req.range_last < req.range_first
        THEN PartialResult(EINVAL, st, "unset", "unset")
        ELSE IF RangeLastBeyond(req, nodes)
        THEN PartialResult(EINVAL, [st EXCEPT !.step_list[pos] = step],
                 "unset", "unset")
        ELSE PartialResult(SLURM_SUCCESS,
                 [st EXCEPT !.step_list[pos] = s2], rem_nodes, s2.exit_code)

\* _step_hostname_to_inx: offset of job node node_inx within the step's
\* nodes, lines 2366-2383
_step_hostname_to_inx(step, node_inx) ==
    Cardinality({i \in step.step_node_bitmap : i < node_inx})

\* one iteration of the loop of step_epilog_complete: the step after it,
\* and whether it was counted
EpilogStep(step, node_inx) ==
    LET step_offset == _step_hostname_to_inx(step, node_inx)
    IN  IF ~step.switch_job \/ node_inx \notin step.step_node_bitmap
        THEN [step |-> step, counted |-> 0]
        ELSE IF step.have_exit_bitmap
        THEN IF step_offset \in step.exit_node_bitmap
             THEN [step |-> step, counted |-> 0]
             ELSE [step |-> [step EXCEPT !.exit_node_bitmap =
                                             @ \cup {step_offset}],
                   counted |-> 1]
        ELSE [step |-> step, counted |-> 1]

\* step_epilog_complete: lines 2385-2427; part_comp is what
\* switch_g_part_comp() answers.  rc is the number of steps counted.
step_epilog_complete(st, node_inx, part_comp) ==
    LET after == [k \in 1 .. Len(st.step_list) |->
                     EpilogStep(st.step_list[k], node_inx)]
    IN  IF ~part_comp THEN [rc |-> 0, st |-> st]
        ELSE [rc |-> SumSeq([k \in 1 .. Len(after) |-> after[k].counted]),
              st |-> [st EXCEPT !.step_list =
                         [k \in 1 .. Len(after) |-> after[k].step]]]

\* steps for the completion reports: a step on both nodes and a batch step
PartialRequests ==
    { OwnerReq(FALSE, FALSE, MaxTasks, MaxTasks, 2, 0, 0, {}, NO_VAL) }
    \cup BatchRequests

\* node ranges of a report: the step node indexes and one beyond
RangeInputs == 0 .. Cardinality(Nodes)

\* step return codes of a report
ExitCodes == {0, 7}

\* the reports a caller may send for the steps of the job
CompleteMsgs ==
    { CompleteMsg(step_id, first, last, step_rc) :
        step_id \in StepIdInputs, first \in RangeInputs,
        last \in RangeInputs, step_rc \in ExitCodes }

PartialStepCreate ==
    \E req \in PartialRequests :
        /\ WithinBounds
        /\ \E r \in {step_create(State, req)} :
               /\ Becomes(r.st)
               /\ last_call' = Trace(State, "step_create", r)

\* a report of the job owner, or one report of another user, which is
\* turned down before its range is read
StepPartialComp ==
    \E req \in CompleteMsgs, uid \in {JOB_OWNER, "other"} :
        /\ uid = JOB_OWNER \/ (req.range_last = 0 /\ req.step_rc = 0)
        /\ \E r \in {step_partial_comp(State, req, uid)} :
               /\ Becomes(r.st)
               /\ last_call' = Trace(State, "step_partial_comp", r)

StepEpilogComplete ==
    \E node_inx \in Nodes, part_comp \in BOOLEAN :
        \E r \in {step_epilog_complete(State, node_inx, part_comp)} :
            /\ Becomes(r.st)
            /\ last_call' = IF r.st = State THEN last_call
                            ELSE [op |-> "step_epilog_complete",
                                  rc |-> SLURM_SUCCESS]

NextPartial ==
    \/ PartialStepCreate
    \/ JobStepComplete
    \/ StepPartialComp
    \/ StepEpilogComplete

SpecPartial == InitScenario /\ [][NextPartial]_vars

\* reports on live steps only: no step is completed, so derived_ec of the
\* job stays as it was
NextReports == PartialStepCreate \/ StepPartialComp \/ StepEpilogComplete

SpecReports == InitScenario /\ [][NextReports]_vars

\* the reports step_partial_comp accepts for a step: a range within the
\* step's nodes, any return code
ValidReports(step) ==
    { m \in { CompleteMsg(step.step_id, first, last, step_rc) :
                 first \in RangeInputs, last \in RangeInputs,
                 step_rc \in ExitCodes } :
        /\ m.range_first <= m.range_last
        /\ m.range_last < Cardinality(step.step_node_bitmap) }

\* one report of the job owner
OneReport(st, a) == step_partial_comp(st, a, JOB_OWNER)

\* the largest return code reported for a step once a and b are applied
MaxReported(step, a, b) ==
    IF step.have_exit_bitmap
    THEN MAX(step.exit_code, MAX(a.step_rc, b.step_rc))
    ELSE MAX(a.step_rc, b.step_rc)

\* C18: for every non-batch step of a reachable job and any two valid
\* reports a and b, applying a then b and b then a both succeed and leave
\* the same exit_node_bitmap, the same exit_code, which is the largest
\* return code reported, and the same rem; applying a once more after both
\* changes neither the bitmap nor rem.
PartialCompletionsCommute ==
    \A k \in 1 .. Len(step_list) :
        ~step_list[k].batch_step =>
            LET reports == ValidReports(step_list[k])
                one == [a \in reports |-> OneReport(State, a)]
                two == [a \in reports |->
                           [b \in reports |-> OneReport(one[a].st, b)]]
            IN  \A a \in reports, b \in reports :
                    LET ab == two[a][b]
                        ba == two[b][a]
                        again == OneReport(ab.st, a)
                    IN  /\ ab.rc = SLURM_SUCCESS /\ ba.rc = SLURM_SUCCESS
                        /\ ab.st.step_list[k].exit_node_bitmap =
                               ba.st.step_list[k].exit_node_bitmap
                        /\ ab.st.step_list[k].exit_code =
                               ba.st.step_list[k].exit_code
                        /\ ab.st.step_list[k].exit_code =
                               MaxReported(step_list[k], a, b)
                        /\ ab.rem = ba.rem
                        /\ again.rc = SLURM_SUCCESS
                        /\ again.st.step_list[k].exit_node_bitmap =
                               ab.st.step_list[k].exit_node_bitmap
                        /\ again.rem = ab.rem

\* C18 witness: a step on two nodes whose two nodes were reported, the
\* larger return code kept, right after a report
BothNodesReported ==
    /\ last_call.op = "step_partial_comp"
    /\ \E k \in 1 .. Len(step_list) :
           /\ ~step_list[k].batch_step
           /\ step_list[k].exit_bits = 2
           /\ step_list[k].exit_node_bitmap = {0, 1}
           /\ step_list[k].exit_code = 7
           /\ step_list[k].switch_released = 1

\* the steps that are in the registry now and are gone after the step
RemovedSteps ==
    { k \in 1 .. Len(step_list) :
        \A j \in 1 .. Len(step_list') :
            step_list'[j].step_id # step_list[k].step_id }

\* C19: a non-batch step in the registry has had the full switch release
\* fired at most once, and exactly once when it holds no switch jobinfo any
\* more; when the step is removed, the releases fired so far and the one
\* delete_step_record fires for a step that still holds its jobinfo add up
\* to exactly one.
FullReleaseExactlyOnce ==
    [][ /\ \A k \in RemovedSteps :
              ~step_list[k].batch_step =>
                  step_list[k].switch_released
                      + ReleasesOnDelete(step_list[k]) = 1
        /\ \A j \in 1 .. Len(step_list') :
              ~step_list'[j].batch_step =>
                  step_list'[j].switch_released =
                      1 - ReleasesOnDelete(step_list'[j]) ]_vars

\* C19 witness: two live steps, one released by the report of its last
\* node, the other with every node marked by an epilog and not yet released
ReleasedStepBesideUnreleased ==
    \E j \in 1 .. Len(step_list), k \in 1 .. Len(step_list) :
        /\ ~step_list[j].batch_step /\ ~step_list[k].batch_step
        /\ step_list[j].exit_node_bitmap = {0, 1}
        /\ ~step_list[j].switch_job
        /\ step_list[j].switch_released = 1
        /\ step_list[k].exit_node_bitmap = {0, 1}
        /\ step_list[k].switch_job
        /\ step_list[k].switch_released = 0

\* every report the job owner may send for a step, in and out of range
ReportsFor(step) ==
    { CompleteMsg(step.step_id, first, last, step_rc) :
        first \in RangeInputs, last \in RangeInputs, step_rc \in ExitCodes }

\* the job records a and b differ at most in the accounting aggregated into
\* step k
SameButJobacct(a, b, k) ==
    /\ Len(a.step_list) = Len(b.step_list)
    /\ a = [b EXCEPT !.step_list[k].jobacct = a.step_list[k].jobacct]

\* C20: for every non-batch step of a reachable job, whether it has been
\* reported on before or not, step_partial_comp returns EINVAL and changes
\* nothing but the accounting aggregated into the step for every report
\* with range_last < range_first or range_last >= the number of nodes in
\* step_node_bitmap, and returns success for every other report.
RangeIsValidated ==
    \A k \in 1 .. Len(step_list) :
        ~step_list[k].batch_step =>
            \A m \in ReportsFor(step_list[k]) :
                LET r == OneReport(State, m)
                IN  IF \/ m.range_last < m.range_first
                       \/ m.range_last >=
                              Cardinality(step_list[k].step_node_bitmap)
                    THEN r.rc = EINVAL /\ SameButJobacct(r.st, State, k)
                    ELSE r.rc = SLURM_SUCCESS

\* C20 witness: a step whose first node was reported, so that the next
\* report is checked against the size of exit_node_bitmap
FirstNodeReported ==
    \E k \in 1 .. Len(step_list) :
        /\ ~step_list[k].batch_step
        /\ step_list[k].have_exit_bitmap
        /\ step_list[k].exit_node_bitmap = {0}
        /\ OneReport(State,
               CompleteMsg(step_list[k].step_id, 0, 2, 0)).rc = EINVAL
        /\ OneReport(State,
               CompleteMsg(step_list[k].step_id, 1, 0, 0)).rc = EINVAL
        /\ OneReport(State,
               CompleteMsg(step_list[k].step_id, 1, 1, 0)).rc = SLURM_SUCCESS

(***************************************************************************)
(* Batch steps                                                             *)
(***************************************************************************)
\* batch step requests of the job owner, with and without the exclusive
\* flag and a memory limit
BatchShapes ==
    { StepReq(JOB_OWNER, TRUE, e, FALSE, nt, nt, mn, 0, mpc, {}, NO_VAL,
              "ok") :
        e \in BOOLEAN, nt \in {1, MaxTasks}, mn \in {1, INFINITE},
        mpc \in {0, 1} }

\* C21: a batch step in the registry has no layout and no switch job; the
\* creation of a batch step leaves cpus_used, memory_used and
\* core_bitmap_used as they were; step_partial_comp on a batch step, for
\* any range, succeeds, reports rem = 0 and changes nothing but the step's
\* exit_code, which becomes the reported rc, so the record stays.
BatchStepIsBare ==
    /\ \A k \in 1 .. Len(step_list) :
           step_list[k].batch_step =>
               /\ ~step_list[k].have_layout
               /\ ~step_list[k].switch_job
               /\ step_list[k].tasks = << >>
               /\ \A m \in ReportsFor(step_list[k]) :
                      LET r == OneReport(State, m)
                      IN  /\ r.rc = SLURM_SUCCESS
                          /\ r.rem = 0
                          /\ SameButJobacct(r.st,
                                 [State EXCEPT
                                     !.step_list[k].exit_code = m.step_rc],
                                 k)
    /\ WithinBounds =>
           \A req \in BatchShapes :
               LET r == step_create(State, req)
               IN  r.rc = SLURM_SUCCESS =>
                       /\ r.st.cpus_used = cpus_used
                       /\ r.st.memory_used = memory_used
                       /\ r.st.core_bitmap_used = core_bitmap_used
                       /\ Len(r.st.step_list) = Len(step_list) + 1

\* C21 witness: a batch step whose completion was reported with rc 7 is
\* still in the registry, beside a step that holds CPUs
ReportedBatchStepStays ==
    /\ last_call.op = "step_partial_comp"
    /\ \E k \in 1 .. Len(step_list) :
           /\ step_list[k].batch_step
           /\ step_list[k].exit_code = 7
    /\ \E n \in Nodes : cpus_used[n] > 0

(***************************************************************************)
(* Time limits, suspend and resume: lines 2428-2485 and 2875-2962          *)
(***************************************************************************)
\* seconds per clock step of the model
TickLen == 30

\* clock steps after Epoch
MaxTicks == 3

REQUEST_KILL_TIMELIMIT == "REQUEST_KILL_TIMELIMIT"
REQUEST_SIGNAL_TASKS == "REQUEST_SIGNAL_TASKS"

\* a request handed to the agent: the message type, the step, the nodes of
\* the hostlist and the signal (0 when the message carries none)
AgentRequest(msg_type, step_id, hostlist, signal) ==
    [msg_type |-> msg_type, step_id |-> step_id, hostlist |-> hostlist,
     signal |-> signal]

\* _signal_step_timelimit without HAVE_FRONT_END: lines 2875-2930
_signal_step_timelimit(queue, step) ==
    IF step.step_node_bitmap = {} THEN queue
    ELSE queue \cup {AgentRequest(REQUEST_KILL_TIMELIMIT, step.step_id,
                                  step.step_node_bitmap, 0)}

\* a run time that leaves the suspended time in
job_run_mins_suspended_in(step, tnow) ==
    ToU32(CDiv(tnow - step.start_time, 60))

\* job_run_mins of check_job_step_time_limit: lines 2950-2951
job_run_mins(step, tnow) ==
    ToU32(CDiv((tnow - step.start_time) - step.tot_sus_time, 60))

\* the loop of check_job_step_time_limit over the steps from position k
RECURSIVE TimeLimitLoop(_, _, _)
TimeLimitLoop(st, k, queue) ==
    IF k > Len(st.step_list) THEN queue
    ELSE LET step == st.step_list[k]
         IN  TimeLimitLoop(st, k + 1,
                 IF step.time_limit = INFINITE \/ step.time_limit = NO_VAL
                 THEN queue
                 ELSE IF job_run_mins(step, st.now) >= step.time_limit
                 THEN _signal_step_timelimit(queue, step)
                 ELSE queue)

\* check_job_step_time_limit: lines 2932-2962
check_job_step_time_limit(st) ==
    IF st.job_state # "RUNNING" THEN st
    ELSE [st EXCEPT !.agent_queue = TimeLimitLoop(st, 1, @)]

\* _suspend_job_step: lines 2428-2441
_suspend_job_step(st, step) ==
    IF st.suspend_time # 0 /\ st.suspend_time > step.start_time
    THEN [step EXCEPT !.pre_sus_time = @ + (st.now - st.suspend_time)]
    ELSE [step EXCEPT !.pre_sus_time = @ + (st.now - step.start_time)]

\* suspend_job_step: lines 2443-2456
suspend_job_step(st) ==
    [st EXCEPT !.step_list =
        [k \in 1 .. Len(st.step_list) |->
            _suspend_job_step(st, st.step_list[k])]]

\* _resume_job_step: lines 2458-2470
_resume_job_step(st, step) ==
    IF st.suspend_time # 0 /\ st.suspend_time < step.start_time
    THEN [step EXCEPT !.tot_sus_time = @ + (st.now - step.start_time)]
    ELSE [step EXCEPT !.tot_sus_time = @ + (st.now - st.suspend_time)]

\* resume_job_step: lines 2472-2485
resume_job_step(st) ==
    [st EXCEPT !.step_list =
        [k \in 1 .. Len(st.step_list) |->
            _resume_job_step(st, st.step_list[k])]]

\* a request with a time limit, minutes
TimedReq(req, time_limit) == [req EXCEPT !.time_limit = time_limit]

\* a step on both nodes with a limit of one minute and a step on one node
\* without a time limit
TimeRequests ==
    { TimedReq(OwnerReq(FALSE, FALSE, MaxTasks, MaxTasks, 2, 0, 0, {},
                        NO_VAL), 1),
      OwnerReq(FALSE, FALSE, MaxTasks, MaxTasks, 1, 0, 0, {}, NO_VAL) }

TimedStepCreate ==
    \E req \in TimeRequests :
        /\ WithinBounds
        /\ \E r \in {step_create(State, req)} :
               /\ Becomes(r.st)
               /\ last_call' = Trace(State, "step_create", r)

\* the clock moves on
Tick ==
    /\ now < Epoch + MaxTicks * TickLen
    /\ now' = now + TickLen
    /\ UNCHANGED <<job_state, up_node_bitmap, job_vars, core_bitmap, mem_resv,
                   cpus_used, memory_used, core_bitmap_used, step_list,
                   next_step_id, last_core_inx, suspend_time, agent_queue,
                   last_call>>

\* the periodic sweep
CheckJobStepTimeLimit ==
    /\ agent_queue' = check_job_step_time_limit(State).agent_queue
    /\ UNCHANGED <<job_state, up_node_bitmap, job_vars, core_bitmap, mem_resv,
                   cpus_used, memory_used, core_bitmap_used, step_list,
                   next_step_id, last_core_inx, now, suspend_time,
                   last_call>>

\* the job is suspended: the controller calls suspend_job_step, marks the
\* job suspended and stamps suspend_time
SuspendJob ==
    /\ job_state = "RUNNING"
    /\ step_list' = suspend_job_step(State).step_list
    /\ job_state' = "SUSPENDED"
    /\ suspend_time' = now
    /\ UNCHANGED <<up_node_bitmap, job_vars, core_bitmap, mem_resv, cpus_used,
                   memory_used, core_bitmap_used, next_step_id,
                   last_core_inx, now, agent_queue, last_call>>

\* the job is resumed: the controller calls resume_job_step, marks the job
\* running and stamps suspend_time
ResumeJob ==
    /\ job_state = "SUSPENDED"
    /\ step_list' = resume_job_step(State).step_list
    /\ job_state' = "RUNNING"
    /\ suspend_time' = now
    /\ UNCHANGED <<up_node_bitmap, job_vars, core_bitmap, mem_resv, cpus_used,
                   memory_used, core_bitmap_used, next_step_id,
                   last_core_inx, now, agent_queue, last_call>>

NextTime ==
    \/ TimedStepCreate
    \/ JobStepComplete
    \/ Tick
    \/ CheckJobStepTimeLimit
    \/ SuspendJob
    \/ ResumeJob

SpecTime == InitScenario /\ [][NextTime]_vars

\* minutes a step has run, suspended time left out, rounded down
ElapsedMinutes(step) ==
    ((now - step.start_time) - step.tot_sus_time) \div 60

\* the steps the sweep has to signal: those of a running job with a time
\* limit that has run out
ExpiredSteps ==
    { k \in 1 .. Len(step_list) :
        /\ job_state = "RUNNING"
        /\ step_list[k].time_limit # INFINITE
        /\ step_list[k].time_limit # NO_VAL
        /\ ElapsedMinutes(step_list[k]) >= step_list[k].time_limit }

\* C22: check_job_step_time_limit queues one REQUEST_KILL_TIMELIMIT request
\* for each step of a running job whose time limit is set and not above its
\* elapsed minutes, addressed to exactly the nodes of step_node_bitmap; it
\* queues nothing else and changes nothing else: the step records, the
\* registry and the accounting stay as they were.
SweepSignalsExpiredSteps ==
    check_job_step_time_limit(State) =
        [State EXCEPT !.agent_queue =
            @ \cup { AgentRequest(REQUEST_KILL_TIMELIMIT,
                                  step_list[k].step_id,
                                  step_list[k].step_node_bitmap, 0) :
                       k \in ExpiredSteps }]

\* C22 witness: a step with a limit of one minute that was suspended for a
\* while is still in the registry, with its CPUs, after the sweep queued
\* its time-limit request to both of its nodes; a step without a limit
\* lives beside it
ExpiredStepSignalled ==
    \E k \in 1 .. Len(step_list), j \in 1 .. Len(step_list) :
        /\ step_list[k].time_limit = 1
        /\ step_list[k].tot_sus_time > 0
        /\ step_list[k].step_node_bitmap = {0, 1}
        /\ AgentRequest(REQUEST_KILL_TIMELIMIT, step_list[k].step_id,
                        {0, 1}, 0) \in agent_queue
        /\ step_list[j].time_limit = INFINITE
        /\ \A n \in Nodes : cpus_used[n] > 0

(***************************************************************************)
(* job_step_signal and signal_step_tasks: lines 293-390                    *)
(***************************************************************************)
SIGKILL == 9
SIGTERM == 15

\* the user slurmctld runs as, what getuid() returns
getuid == "slurm"

\* signal_step_tasks without HAVE_FRONT_END: lines 343-390
signal_step_tasks(queue, step, signal, msg_type) ==
    IF step.step_node_bitmap = {} THEN queue
    ELSE queue \cup {AgentRequest(msg_type, step.step_id,
                                  step.step_node_bitmap, signal)}

\* a cancellation that purges the step as a completion would
job_step_signal_purges(st, step_id, signal, uid) ==
    LET pos == find_step_record(st.step_list, step_id)
        step == st.step_list[pos]
        killed == IF signal = SIGKILL
                  THEN [step EXCEPT !.requid = uid] ELSE step
        queue == signal_step_tasks(st.agent_queue, killed, signal,
                                   REQUEST_SIGNAL_TASKS)
    IN  IF st.job_state = "COMPLETE"
        THEN CreateResult(ESLURM_ALREADY_DONE, st)
        ELSE IF st.job_state # "RUNNING"
        THEN CreateResult(ESLURM_TRANSITION_STATE_NO_UPDATE, st)
        ELSE IF uid # JOB_OWNER /\ uid # "root" /\ uid # getuid
        THEN CreateResult(ESLURM_USER_ID_MISSING, st)
        ELSE IF pos = 0
        THEN CreateResult(ESLURM_INVALID_JOB_ID, st)
        ELSE CreateResult(SLURM_SUCCESS,
                 IF signal = SIGKILL
                 THEN [job_step_complete(st, step.step_id, uid).st
                          EXCEPT !.agent_queue = queue]
                 ELSE [st EXCEPT !.step_list[pos] = killed,
                                 !.agent_queue = queue])

\* job_step_signal: lines 293-335.  srun_step_complete tells the launcher
\* of the step and changes nothing in the job record.
job_step_signal(st, step_id, signal, uid) ==
    LET pos == find_step_record(st.step_list, step_id)
        step == st.step_list[pos]
        killed == IF signal = SIGKILL
                  THEN [step EXCEPT !.requid = uid] ELSE step
        queue == signal_step_tasks(st.agent_queue, killed, signal,
                                   REQUEST_SIGNAL_TASKS)
    IN  IF st.job_state = "COMPLETE"
        THEN CreateResult(ESLURM_ALREADY_DONE, st)
        ELSE IF st.job_state # "RUNNING"
        THEN CreateResult(ESLURM_TRANSITION_STATE_NO_UPDATE, st)
        ELSE IF uid # JOB_OWNER /\ uid # "root" /\ uid # getuid
        THEN CreateResult(ESLURM_USER_ID_MISSING, st)
        ELSE IF pos = 0
        THEN CreateResult(ESLURM_INVALID_JOB_ID, st)
        ELSE CreateResult(SLURM_SUCCESS,
                 [st EXCEPT !.step_list[pos] = killed,
                            !.agent_queue = queue])

\* the signals and the callers of the model
Signals == {SIGKILL, SIGTERM}
SignalCallers == {JOB_OWNER, "root", "other"}

\* an exclusive step with a memory limit: it holds CPUs, memory and cores
SignalRequests ==
    { OwnerReq(TRUE, FALSE, MaxTasks, MaxTasks, 1, 0, 1, {}, NO_VAL) }

SignalStepCreate ==
    \E req \in SignalRequests :
        /\ WithinBounds
        /\ \E r \in {step_create(State, req)} :
               /\ Becomes(r.st)
               /\ last_call' = Trace(State, "step_create", r)

JobStepSignal ==
    \E step_id \in StepIdInputs, signal \in Signals, uid \in SignalCallers :
        \E r \in {job_step_signal(State, step_id, signal, uid)} :
            /\ step_list' = r.st.step_list
            /\ agent_queue' = r.st.agent_queue
            /\ last_call' = Trace(State, "job_step_signal", r)
            /\ UNCHANGED <<job_state, up_node_bitmap, job_vars, core_bitmap,
                           mem_resv, cpus_used, memory_used,
                           core_bitmap_used, next_step_id, last_core_inx,
                           now, suspend_time>>

NextSignal ==
    \/ SignalStepCreate
    \/ JobStepComplete
    \/ JobStepSignal

SpecSignal == InitScenario /\ [][NextSignal]_vars

\* the step record a signal leaves behind
AfterSignal(step, signal, uid) ==
    IF signal = SIGKILL THEN [step EXCEPT !.requid = uid] ELSE step

\* C23: whatever the step, the signal and the caller, job_step_signal
\* leaves the registry, the step records and cpus_used, memory_used and
\* core_bitmap_used as they were, but for the requid of the signalled step,
\* which takes the caller's uid when the signal is SIGKILL; a call that
\* fails changes nothing at all.  So a step stays in the registry with its
\* debits until job_step_complete removes it.
SignalKeepsStepAndDebits ==
    \A step_id \in StepIdInputs, signal \in Signals, uid \in SignalCallers :
        LET r == job_step_signal(State, step_id, signal, uid)
            pos == find_step_record(step_list, step_id)
        IN  IF r.rc = SLURM_SUCCESS
            THEN /\ pos # 0
                 /\ [r.st EXCEPT !.agent_queue = agent_queue] =
                        [State EXCEPT !.step_list[pos] =
                            AfterSignal(step_list[pos], signal, uid)]
                 /\ AgentRequest(REQUEST_SIGNAL_TASKS,
                                 step_list[pos].step_id,
                                 step_list[pos].step_node_bitmap, signal)
                        \in r.st.agent_queue
            ELSE r.st = State

\* C23 witness: a step that root cancelled with SIGKILL and that was sent
\* SIGTERM as well is still in the registry and holds its CPUs, memory and
\* cores
CancelledStepStillLive ==
    \E k \in 1 .. Len(step_list) :
        /\ step_list[k].requid = "root"
        /\ step_list[k].exclusive
        /\ \A signal \in Signals :
               AgentRequest(REQUEST_SIGNAL_TASKS, step_list[k].step_id,
                   step_list[k].step_node_bitmap, signal) \in agent_queue
        /\ core_bitmap_used # {}
        /\ \E n \in Nodes : cpus_used[n] > 0 /\ memory_used[n] > 0

(***************************************************************************)
(* Admission of requests, and delete_step_records: lines 130-163           *)
(***************************************************************************)
\* delete_step_records: with filter 1 the steps that hold a switch
\* allocation stay; the others are removed from the list and freed
delete_step_records(st, filter) ==
    [st EXCEPT !.step_list =
        IF filter = 1 THEN SelectSeq(@, LAMBDA step : step.switch_job)
        ELSE << >>]

\* the request as another user would send it
FromOther(req) == [req EXCEPT !.user_id = "other"]

\* task and batch requests of the owner and of another user
AdmitRequests ==
    TaskRequests \cup BatchRequests
        \cup { FromOther(req) : req \in TaskRequests \cup BatchRequests }

AdmitStepCreate ==
    \E req \in AdmitRequests :
        /\ WithinBounds
        /\ \E r \in {step_create(State, req)} :
               /\ Becomes(r.st)
               /\ last_call' = Trace(State, "step_create", r)

\* the steps of the job are purged
DeleteStepRecords ==
    \E filter \in {0, 1} :
        /\ step_list # << >>
        /\ Becomes(delete_step_records(State, filter))
        /\ last_call' = [op |-> "delete_step_records", rc |-> SLURM_SUCCESS]

NextAdmit ==
    \/ AdmitStepCreate
    \/ JobStepComplete
    \/ DeleteStepRecords

SpecAdmit == Init /\ [][NextAdmit]_vars

\* C24: step_create succeeds only for a running job and a request of the
\* job's owner; when the job is pending, suspended or finished, or the
\* request is another user's, it fails and leaves the job record, the
\* registry and the debits included, as it was.
OnlyOwnerOfRunningJobCreates ==
    WithinBounds =>
        \A req \in AdmitRequests :
            LET r == step_create(State, req)
            IN  IF job_state = "RUNNING" /\ req.user_id = JOB_OWNER
                THEN TRUE
                ELSE r.rc # SLURM_SUCCESS /\ r.st = State

\* C24 witness: a running job with a step in which the owner's request
\* is admitted and the same request of another user is denied
OwnerAdmittedOtherDenied ==
    /\ Created
    /\ \E n \in Nodes : cpus_used[n] > 0
    /\ \E req \in TaskRequests :
           /\ step_create(State, req).rc = SLURM_SUCCESS
           /\ step_create(State, FromOther(req)).rc = ESLURM_ACCESS_DENIED

\* C25: in a state whose cpus_used, memory_used and core_bitmap_used are
\* exactly the debits of the live steps, delete_step_records(job, 0) leaves
\* an empty step_list and no debit: cpus_used and memory_used are zero on
\* every node and core_bitmap_used is empty.
PurgeLeavesNoDebit ==
    (/\ \A n \in Nodes : cpus_used[n] = LiveCpus(n)
     /\ \A n \in Nodes : memory_used[n] = LiveMemory(n)
     /\ core_bitmap_used = LiveCores)
    => LET st == delete_step_records(State, 0)
       IN  /\ st.step_list = << >>
           /\ \A n \in Nodes : st.cpus_used[n] = 0
           /\ \A n \in Nodes : st.memory_used[n] = 0
           /\ st.core_bitmap_used = {}

(***************************************************************************)
(* Memory that is not a reserved resource                                  *)
(***************************************************************************)
\* values of mem_per_cpu: none, one that fits a node, one above a node's
\* memory
MemPerCpuInputs == {0, 3, 9}

\* requests without a memory limit, to which the limits are added
MemOffRequests ==
    { OwnerReq(e, FALSE, nt, nt, mn, 0, 0, {}, NO_VAL) :
        e \in BOOLEAN, nt \in {1, MaxTasks}, mn \in {1, 2} }

\* the request with a memory limit per CPU
WithMemPerCpu(req, mpc) == [req EXCEPT !.mem_per_cpu = mpc]

\* a running job on a system where _is_mem_resv() answers false
InitMemOff ==
    /\ job_state = "RUNNING"
    /\ up_node_bitmap = Nodes
    /\ core_bitmap = AllCoreBits
    /\ mem_resv = FALSE
    /\ next_step_id = 0
    /\ cpus_used = [n \in Nodes |-> 0]
    /\ memory_used = [n \in Nodes |-> 0]
    /\ core_bitmap_used = {}
    /\ step_list = << >>
    /\ last_core_inx = 0
    /\ now = Epoch
    /\ suspend_time = 0
    /\ agent_queue = {}
    /\ JobReady
    /\ last_call = [op |-> "none", rc |-> SLURM_SUCCESS]

MemOffStepCreate ==
    \E req \in MemOffRequests, mpc \in MemPerCpuInputs :
        /\ WithinBounds
        /\ \E r \in {step_create(State, WithMemPerCpu(req, mpc))} :
               /\ Becomes(r.st)
               /\ last_call' = Trace(State, "step_create", r)

NextMemOff == MemOffStepCreate \/ JobStepComplete

SpecMemOff == InitMemOff /\ [][NextMemOff]_vars

\* the nodes of the step a successful creation added
PickedNodes(r) ==
    IF r.rc = SLURM_SUCCESS
    THEN r.st.step_list[Len(r.st.step_list)].step_node_bitmap ELSE {}

\* C26: memory is not a reserved resource; two requests that differ only
\* in mem_per_cpu, issued in the same state, get the same return code and
\* the same nodes and leave the same cpus_used and memory_used.
MemPerCpuIsNoOp ==
    WithinBounds =>
        \A req \in MemOffRequests, mpc \in MemPerCpuInputs :
            LET a == step_create(State, req)
                b == step_create(State, WithMemPerCpu(req, mpc))
            IN  /\ a.rc = b.rc
                /\ PickedNodes(a) = PickedNodes(b)
                /\ a.st.cpus_used = b.st.cpus_used
                /\ a.st.memory_used = b.st.memory_used

(***************************************************************************)
(* Step listing                                                            *)
(***************************************************************************)
\* the id of the job of the model and an id no job has
THIS_JOB_ID == 7
OTHER_JOB_ID == 8

\* uids validate_operator() accepts, and the coordinators of the job's
\* account
Operators == {"admin"}
AcctCoords == {"lead"}
validate_operator(uid) == uid \in Operators
assoc_mgr_is_user_acct_coord(uid) == uid \in AcctCoords

\* the inner loop: the steps of one job that pass the step filter, packed
\* in list order
RECURSIVE PackSteps(_, _, _)
PackSteps(steps, step_id, buffer) ==
    IF steps = << >> THEN buffer
    ELSE IF step_id # NO_VAL /\ Head(steps).step_id # step_id
         THEN PackSteps(Tail(steps), step_id, buffer)
         ELSE PackSteps(Tail(steps), step_id,
                        Append(buffer, Head(steps).step_id))

\* the tests that make the loop pass over the job; conf holds
\* private_data & PRIVATE_DATA_JOBS and the PART_FLAG_HIDDEN of the job's
\* partition
JobSkipped_hidden_always(conf, job_id, uid, show_all) ==
    \/ job_id # NO_VAL /\ THIS_JOB_ID # job_id
    \/ conf.hidden
    \/ /\ conf.private_jobs
       /\ JOB_OWNER # uid
       /\ ~validate_operator(uid)
       /\ ~assoc_mgr_is_user_acct_coord(uid)

JobSkipped(conf, job_id, uid, show_all) ==
    \/ job_id # NO_VAL /\ THIS_JOB_ID # job_id
    \/ ~show_all /\ conf.hidden
    \/ /\ conf.private_jobs
       /\ JOB_OWNER # uid
       /\ ~validate_operator(uid)
       /\ ~assoc_mgr_is_user_acct_coord(uid)

\* the job list holds the one job of the model
pack_ctld_job_step_info_response_msg(st, conf, job_id, step_id, uid, show_all) ==
    LET skipped == JobSkipped(conf, job_id, uid, show_all)
        buffer == IF skipped THEN << >>
                  ELSE PackSteps(st.step_list, step_id, << >>)
    IN  [rc |-> IF skipped /\ buffer = << >>
                THEN ESLURM_INVALID_JOB_ID ELSE SLURM_SUCCESS,
         steps |-> buffer]

ListConfs == [private_jobs : BOOLEAN, hidden : BOOLEAN]
ListCallers == {JOB_OWNER} \cup Operators \cup AcctCoords \cup {"other"}
ListJobIds == {THIS_JOB_ID, OTHER_JOB_ID, NO_VAL}
ListStepIds == {0, 1, NO_VAL}

ListRequests == { OwnerReq(FALSE, FALSE, 1, 1, 1, 0, 0, {}, NO_VAL) }

ListStepCreate ==
    \E req \in ListRequests :
        /\ WithinBounds
        /\ \E r \in {step_create(State, req)} :
               /\ Becomes(r.st)
               /\ last_call' = Trace(State, "step_create", r)

\* a listing changes no record; its answer is kept in last_call
StepInfoRequest ==
    \E conf \in ListConfs, job_id \in ListJobIds, step_id \in ListStepIds,
       uid \in ListCallers, show_all \in BOOLEAN :
        \E r \in {pack_ctld_job_step_info_response_msg(
                      State, conf, job_id, step_id, uid, show_all)} :
            /\ last_call' = [op |-> "pack_ctld_job_step_info_response_msg",
                             rc |-> r.rc, steps |-> r.steps, uid |-> uid,
                             conf |-> conf, show_all |-> show_all]
            /\ UNCHANGED <<job_state, up_node_bitmap, job_vars, core_bitmap, mem_resv,
                           next_step_id, cpus_used, memory_used,
                           core_bitmap_used, step_list, last_core_inx, now,
                           suspend_time, agent_queue>>

NextList == ListStepCreate \/ JobStepComplete \/ StepInfoRequest

SpecList == InitScenario /\ [][NextList]_vars

\* the caller is the owner, an operator or a coordinator of the account
Privileged(uid) ==
    uid = JOB_OWNER \/ uid \in Operators \/ uid \in AcctCoords

\* the ids of the steps that match the filter, in registry order
Matching(job_id, step_id) ==
    IF job_id # NO_VAL /\ job_id # THIS_JOB_ID THEN << >>
    ELSE LET match == SelectSeq(step_list,
                 LAMBDA s : step_id = NO_VAL \/ s.step_id = step_id)
         IN  [i \in 1 .. Len(match) |-> match[i].step_id]

\* C27, as stated: the steps of the job are omitted whenever the caller
\* is not privileged and whenever the partition is hidden without
\* SHOW_ALL; every other matching step is listed, in registry order.
ListingOmitsForeignJobs ==
    \A conf \in ListConfs, job_id \in ListJobIds, step_id \in ListStepIds,
       uid \in ListCallers, show_all \in BOOLEAN :
        pack_ctld_job_step_info_response_msg(
            State, conf, job_id, step_id, uid, show_all).steps
        = IF ~Privileged(uid) \/ (conf.hidden /\ ~show_all) THEN << >>
          ELSE Matching(job_id, step_id)

\* C27, amended: the caller's standing is asked only under
\* PRIVATE_DATA_JOBS.
ListingOmitsPrivateJobs ==
    \A conf \in ListConfs, job_id \in ListJobIds, step_id \in ListStepIds,
       uid \in ListCallers, show_all \in BOOLEAN :
        pack_ctld_job_step_info_response_msg(
            State, conf, job_id, step_id, uid, show_all).steps
        = IF (conf.private_jobs /\ ~Privileged(uid))
             \/ (conf.hidden /\ ~show_all) THEN << >>
          ELSE Matching(job_id, step_id)

\* two live steps were listed to a foreign caller of an open system
ForeignCallerListedTwoSteps ==
    /\ last_call.op = "pack_ctld_job_step_info_response_msg"
    /\ last_call.uid = "other"
    /\ ~last_call.conf.private_jobs
    /\ Len(last_call.steps) = 2
    /\ Len(step_list) = 2

(***************************************************************************)
(* Idle nodes first.  The node picker on a job of three nodes, for         *)
(* non-exclusive requests that name a node count and nothing else          *)
(* (cpu_count 0, no memory limit, no node list, no relative offset); a     *)
(* step is held as the node set it was given.                              *)
(***************************************************************************)
TopUpNodes == {0, 1, 2}
TopUpMinNodes == 1 .. Cardinality(TopUpNodes)

\* the locals of the picker at line 870 for such a request
TopUpLocals(st, min_nodes) ==
    [fail |-> FALSE, rc |-> SLURM_SUCCESS,
     nodes_avail |-> TopUpNodes \cap st.up_node_bitmap, nodes_picked |-> {},
     have_idle |-> FALSE, nodes_idle |-> {}, min_nodes |-> min_nodes,
     nodes_picked_cnt |-> 0, cpus_picked_cnt |-> 0, have_usable |-> FALSE,
     mem_blocked_nodes |-> 0, mem_blocked_cpus |-> 0]

\* lines 870-982 for it: the idle nodes, then the top-up to min_nodes
TopUpPick(st, min_nodes) ==
    StageMinNodes(st,
        StageRelative(st, [relative |-> NO_VAL],
                      TopUpLocals(st, min_nodes)))

InitTopUp ==
    /\ job_state = "RUNNING"
    /\ up_node_bitmap = TopUpNodes
    /\ core_bitmap = AllCoreBits
    /\ mem_resv = FALSE
    /\ next_step_id = 0
    /\ cpus_used = [n \in Nodes |-> 0]
    /\ memory_used = [n \in Nodes |-> 0]
    /\ core_bitmap_used = {}
    /\ step_list = << >>
    /\ last_core_inx = 0
    /\ now = Epoch
    /\ suspend_time = 0
    /\ agent_queue = {}
    /\ JobReady
    /\ last_call = [op |-> "none", rc |-> SLURM_SUCCESS]

\* a step is created on the nodes the picker returns
TopUpStepCreate ==
    \E min_nodes \in TopUpMinNodes :
        /\ Len(step_list) <= MaxLive
        /\ next_step_id < MaxCreates + MaxLive
        /\ \E p \in {TopUpPick(State, min_nodes)} :
               /\ ~p.fail
               /\ step_list' = Append(step_list,
                      [step_id |-> next_step_id,
                       step_node_bitmap |-> p.nodes_picked])
               /\ next_step_id' = next_step_id + 1
               /\ last_call' = [op |-> "_pick_step_nodes", rc |-> p.rc,
                                min_nodes |-> min_nodes,
                                idle |-> (TopUpNodes \cap up_node_bitmap)
                                         \ StepNodesUnion(step_list)]
        /\ UNCHANGED <<job_state, up_node_bitmap, job_vars, core_bitmap, mem_resv,
                       cpus_used, memory_used, core_bitmap_used,
                       last_core_inx, now, suspend_time, agent_queue>>

\* a step ends and leaves the list
TopUpStepDone ==
    \E pos \in 1 .. Len(step_list) :
        /\ step_list' = RemoveAt(step_list, pos)
        /\ last_call' = [op |-> "job_step_complete", rc |-> SLURM_SUCCESS]
        /\ UNCHANGED <<job_state, up_node_bitmap, job_vars, core_bitmap, mem_resv,
                       next_step_id, cpus_used, memory_used,
                       core_bitmap_used, last_core_inx, now, suspend_time,
                       agent_queue>>

NextTopUp == TopUpStepCreate \/ TopUpStepDone

SpecTopUp == InitTopUp /\ [][NextTopUp]_vars

\* C28: a non-exclusive step without relative offset gets a node of
\* another live step only when it also gets every available idle node.
IdleNodesPickedFirst ==
    \A min_nodes \in TopUpMinNodes :
        LET p == TopUpPick(State, min_nodes)
            used == StepNodesUnion(step_list)
            idle == (TopUpNodes \cap up_node_bitmap) \ used
        IN  (~p.fail /\ p.nodes_picked \cap used # {})
                => idle \subseteq p.nodes_picked

(***************************************************************************)
(* Request normalisation                                                   *)
(***************************************************************************)
NoKillInputs == {0, 1, 2, 5}

\* requests with and without the overcommit and exclusive flags, with CPU
\* counts that are 0, a multiple of the task count, and neither
NormRequests ==
    { [OwnerReq(e, o, nt, cc, 1, 0, 0, {}, NO_VAL) EXCEPT !.no_kill = nk] :
        e \in BOOLEAN, o \in BOOLEAN, nt \in {1, MaxTasks},
        cc \in {0, 1, MaxTasks, 2 * MaxTasks, 2 * MaxTasks + 1},
        nk \in NoKillInputs }

\* the requests steps are created from
NormCreated ==
    { req \in NormRequests :
        /\ req.num_tasks = MaxTasks
        /\ req.cpu_count \in {MaxTasks, 2 * MaxTasks}
        /\ req.no_kill = (IF req.overcommit THEN 2 ELSE 0) }

NormStepCreate ==
    \E req \in NormCreated :
        /\ WithinBounds
        /\ \E r \in {step_create(State, req)} :
               /\ Becomes(r.st)
               /\ last_call' = Trace(State, "step_create", r)

NextNorm == NormStepCreate \/ JobStepComplete

SpecNorm == InitScenario /\ [][NextNorm]_vars

\* the overcommit flag, CPU count and CPUs per task the claim gives
NormOvercommit(req) == req.overcommit /\ ~req.exclusive
NormCpuCount(req) ==
    IF req.overcommit /\ req.exclusive THEN req.num_tasks
    ELSE IF req.overcommit THEN 0 ELSE req.cpu_count
NormCpusPerTask(req) ==
    IF NormCpuCount(req) # 0 /\ NormCpuCount(req) % req.num_tasks = 0
    THEN NormCpuCount(req) \div req.num_tasks ELSE 0

\* C29: the normalised request has overcommit cleared and cpu_count =
\* num_tasks when overcommit and exclusive were both set, cpu_count 0 with
\* overcommit alone; cpus_per_task is cpu_count / num_tasks when that is
\* exact and non-zero, else 0; no_kill is 0 or 1; and a created step
\* debits tasks * cpus_per_task on each node it is allocated on.
RequestIsNormalised ==
    WithinBounds =>
        \A req \in NormRequests :
            LET spec == NormSpec(req)
                r == step_create(State, req)
                step == r.st.step_list[Len(r.st.step_list)]
                hosts == LpsNodes(step)
            IN  /\ spec.overcommit = NormOvercommit(req)
                /\ spec.cpu_count = NormCpuCount(req)
                /\ CpusPerTask(spec) = NormCpusPerTask(req)
                /\ r.rc = SLURM_SUCCESS =>
                      /\ step.cpus_per_task = NormCpusPerTask(req)
                      /\ step.no_kill = (IF req.no_kill = 0 THEN 0 ELSE 1)
                      /\ \A k \in 1 .. Len(hosts) :
                            r.st.cpus_used[hosts[k]] =
                                cpus_used[hosts[k]]
                                + step.tasks[k] * NormCpusPerTask(req)
                      /\ \A n \in Nodes \ step.step_node_bitmap :
                            r.st.cpus_used[n] = cpus_used[n]

\* two steps are live: one made from an overcommit-and-exclusive request
\* with no_kill 2, holding one CPU per task, and one with two CPUs per task
NormalisedStepsHoldCpus ==
    /\ Len(step_list) = 2
    /\ \E i, j \in 1 .. 2 :
          /\ step_list[i].overcommit /\ step_list[i].exclusive
          /\ step_list[i].cpus_per_task = 1
          /\ step_list[i].no_kill = 1
          /\ step_list[j].cpus_per_task = 2
          /\ step_list[j].no_kill = 0
    /\ \E n \in Nodes : cpus_used[n] >= MaxTasks

\* st with its step list put back to that of the current state
SameButStepTimes(st, field) ==
    /\ Len(st.step_list) = Len(step_list)
    /\ \A k \in 1 .. Len(step_list) :
          [st.step_list[k] EXCEPT ![field] = 0]
              = [step_list[k] EXCEPT ![field] = 0]
    /\ [st EXCEPT !.step_list = step_list] = State

\* C30: suspend adds now - max(start_time, suspend_time) to pre_sus_time
\* of every step and resume adds now - (suspend_time if it is after
\* start_time, else start_time) to tot_sus_time of every step, whatever
\* suspend_time is, 0 included; nothing else changes.
SuspendResumeBookkeeping ==
    LET s == suspend_job_step(State)
        r == resume_job_step(State)
    IN  /\ SameButStepTimes(s, "pre_sus_time")
        /\ SameButStepTimes(r, "tot_sus_time")
        /\ \A k \in 1 .. Len(step_list) :
              LET step == step_list[k]
              IN  /\ s.step_list[k].pre_sus_time =
                         step.pre_sus_time
                         + (now - MAX(step.start_time, suspend_time))
                  /\ r.step_list[k].tot_sus_time =
                         step.tot_sus_time
                         + (now - (IF suspend_time > step.start_time
                                   THEN suspend_time ELSE step.start_time))

(***************************************************************************)
(* The core picker                                                         *)
(***************************************************************************)
\* jobs that own every core, and that lack core 0 of socket 1 on node 0
CoreJobs ==
    { Job("RUNNING", Nodes, AllCoreBits, TRUE, 0),
      Job("RUNNING", Nodes,
          AllCoreBits \ {get_job_resources_offset(0, 1, 0)}, TRUE, 0) }

\* exclusive steps of one and two tasks with one CPU per task, on one node
CoreRequests ==
    { OwnerReq(TRUE, FALSE, nt, nt, 1, 1, 0, {}, NO_VAL) : nt \in {1, 2} }

InitCores ==
    /\ \E j \in CoreJobs :
          /\ job_state = j.job_state
          /\ up_node_bitmap = j.up_node_bitmap
          /\ core_bitmap = j.core_bitmap
          /\ mem_resv = j.mem_resv
          /\ next_step_id = j.next_step_id
    /\ cpus_used = [n \in Nodes |-> 0]
    /\ memory_used = [n \in Nodes |-> 0]
    /\ core_bitmap_used = {}
    /\ step_list = << >>
    /\ last_core_inx \in 0 .. (cores - 1)
    /\ now = Epoch
    /\ suspend_time = 0
    /\ agent_queue = {}
    /\ JobReady
    /\ last_call = [op |-> "none", rc |-> SLURM_SUCCESS]

CoreStepCreate ==
    \E req \in CoreRequests :
        /\ Len(step_list) <= MaxLive
        /\ next_step_id <= MaxCreates
        /\ \E r \in {step_create(State, req)} :
               /\ Becomes(r.st)
               /\ last_call' = Trace(State, "step_create", r)

NextCores == CoreStepCreate \/ JobStepComplete

SpecCores == InitCores /\ [][NextCores]_vars

\* task counts and CPUs per task handed to the core picker
CoreTaskCnts == 1 .. (sockets * cores)
CoreCpusPerTask == {0, 1, 2}

\* the cores a new step needs on a node
CoresNeeded(task_cnt, cpus_per_task) ==
    IF cpus_per_task > 0 THEN task_cnt * cpus_per_task ELSE task_cnt

\* _pick_step_cores for a new step on node n of the current state
PickOnNode(n, task_cnt, cpus_per_task, last) ==
    _pick_step_cores(core_bitmap, cpus_per_task, n, task_cnt,
                     [used |-> core_bitmap_used, step_cb |-> {},
                      last_core_inx |-> last])

SockOf(bit) == (bit % (sockets * cores)) \div cores
CoreOf(bit) == bit % cores

\* the job-owned, unused cores of node n: core index major, socket minor
FreeWalk(n) ==
    SelectSeq([k \in 1 .. (sockets * cores) |->
                  get_job_resources_offset(n, (k - 1) % sockets,
                                           (k - 1) \div sockets)],
              LAMBDA b : b \in core_bitmap /\ b \notin core_bitmap_used)

SeqSet(s) == { s[i] : i \in 1 .. Len(s) }

\* the first pass took the first k free cores in walk order and marked
\* them in both bitmaps
TakesFirstFree(n, task_cnt, cpus_per_task) ==
    LET k == CoresNeeded(task_cnt, cpus_per_task)
        c == PickOnNode(n, task_cnt, cpus_per_task, last_core_inx)
        first == SeqSet(SubSeq(FreeWalk(n), 1, MIN(k, Len(FreeWalk(n)))))
    IN  /\ c.step_cb \cap SeqSet(FreeWalk(n)) = first
        /\ c.used = core_bitmap_used \cup first
        /\ first \subseteq c.step_cb

\* socket s got a second core although socket t, which got none, had a
\* free core that passes the test before(core of t, t, second core of s, s)
SecondCoreBefore(n, task_cnt, cpus_per_task, before(_, _, _, _)) ==
    LET c == PickOnNode(n, task_cnt, cpus_per_task, last_core_inx)
        taken == c.step_cb \cap SeqSet(FreeWalk(n))
    IN  \E s, t \in SocketIds :
            /\ s # t
            /\ \E b1, b2 \in taken :
                  /\ SockOf(b1) = s /\ SockOf(b2) = s
                  /\ CoreOf(b1) < CoreOf(b2)
                  /\ \A b \in taken : SockOf(b) # t
                  /\ \E f \in SeqSet(FreeWalk(n)) :
                        /\ SockOf(f) = t
                        /\ before(CoreOf(f), t, CoreOf(b2), s)

\* the calls of the claim: fewer cores needed than the job owns on the node
FewerThanAll(n, task_cnt, cpus_per_task) ==
    CoresNeeded(task_cnt, cpus_per_task)
        < Cardinality(core_bitmap \cap NodeCoreBits(n))

LowerOrEqualCore(cf, t, c2, s) == cf <= c2
EarlierInWalk(cf, t, c2, s) == cf < c2 \/ (cf = c2 /\ t < s)

\* C31, as stated: the first pass takes the first k free job cores in
\* (core, socket) order and marks them in both bitmaps, and no socket gets
\* a second core while another socket with a free job core at a lower or
\* equal core index has none.
FirstPassSpreadsOverSockets ==
    \A n \in Nodes, task_cnt \in CoreTaskCnts, cpt \in CoreCpusPerTask :
        FewerThanAll(n, task_cnt, cpt) =>
            /\ TakesFirstFree(n, task_cnt, cpt)
            /\ ~SecondCoreBefore(n, task_cnt, cpt, LowerOrEqualCore)

\* C31, amended: no socket gets a second core while another socket that
\* has none has a free job core earlier in the walk.
FirstPassTakesWalkOrder ==
    \A n \in Nodes, task_cnt \in CoreTaskCnts, cpt \in CoreCpusPerTask :
        FewerThanAll(n, task_cnt, cpt) =>
            /\ TakesFirstFree(n, task_cnt, cpt)
            /\ ~SecondCoreBefore(n, task_cnt, cpt, EarlierInWalk)

\* a live step holds both cores of socket 0 on node 0 while core 1 of
\* socket 1 is free
StepFillsOneSocket ==
    /\ \E i \in 1 .. Len(step_list) :
          /\ step_list[i].exclusive
          /\ step_list[i].core_bitmap_job =
                 { get_job_resources_offset(0, 0, 0),
                   get_job_resources_offset(0, 0, 1) }
    /\ get_job_resources_offset(0, 1, 1) \in core_bitmap \ core_bitmap_used

\* values the static last_core_inx can hold: left by calls on nodes of
\* this core count and of twice as many cores
LastCoreInputs == 0 .. (2 * cores - 1)

\* task counts of the layout on a node of the step, none included
OversubTaskCnts == 0 .. (sockets * cores)

\* the call goes on to the second pass, which moves last_core_inx on
Oversubscribes(n, task_cnt, cpus_per_task) ==
    PickOnNode(n, task_cnt, cpus_per_task, 0).last_core_inx # 0

\* C32: whatever last_core_inx holds, an oversubscribing call gives the
\* step min(needed cores, job-owned cores) cores on the node, sets only
\* job-owned bits and changes core_bitmap_used the same way.
RotationAffectsOnlyWhichCores ==
    \A n \in Nodes, task_cnt \in OversubTaskCnts, cpt \in CoreCpusPerTask :
        Oversubscribes(n, task_cnt, cpt) =>
            \A last \in LastCoreInputs :
                LET c == PickOnNode(n, task_cnt, cpt, last)
                IN  /\ Cardinality(c.step_cb) =
                           MIN(CoresNeeded(task_cnt, cpt),
                               Cardinality(core_bitmap \cap NodeCoreBits(n)))
                    /\ c.step_cb \subseteq core_bitmap \cap NodeCoreBits(n)
                    /\ c.used = PickOnNode(n, task_cnt, cpt, 0).used

(***************************************************************************)
(* The first step of a job whose nodes are still booting                   *)
(***************************************************************************)
\* requests of the owner: a step of one task, the same step with a time
\* limit above the partition's, and a batch step
FirstRequests ==
    { OwnerReq(FALSE, FALSE, 1, 1, 1, 0, 0, {}, NO_VAL),
      [OwnerReq(FALSE, FALSE, 1, 1, 1, 0, 0, {}, NO_VAL)
          EXCEPT !.ext = "time_limit"] }
    \cup BatchRequests

\* time limits of the job, minutes
JobTimeLimits == {JobTimeLimit, INFINITE}

\* a job that has just been given its nodes: configuring, some of the nodes
\* powered down or not responding yet, the prolog perhaps still running
InitFirst ==
    /\ job_state = "RUNNING"
    /\ up_node_bitmap = Nodes
    /\ core_bitmap = AllCoreBits
    /\ mem_resv = TRUE
    /\ next_step_id = 0
    /\ cpus_used = [n \in Nodes |-> 0]
    /\ memory_used = [n \in Nodes |-> 0]
    /\ core_bitmap_used = {}
    /\ step_list = << >>
    /\ last_core_inx = 0
    /\ now = Epoch
    /\ suspend_time = 0
    /\ agent_queue = {}
    /\ job_configuring = TRUE
    /\ prolog_running \in BOOLEAN
    /\ node_waiting \in SUBSET Nodes
    /\ job_time_limit \in JobTimeLimits
    /\ end_time = Epoch + JobTimeLimit * 60
    /\ derived_ec = 0
    /\ last_call = [op |-> "none", rc |-> SLURM_SUCCESS]

FirstStepCreate ==
    \E req \in FirstRequests :
        /\ WithinBounds
        /\ \E r \in {step_create(State, req)} :
               /\ Becomes(r.st)
               /\ last_call' = Trace(State, "step_create", r)

\* the prolog of the job ends
PrologEnds ==
    /\ prolog_running
    /\ prolog_running' = FALSE
    /\ UNCHANGED <<job_state, up_node_bitmap, core_bitmap, mem_resv,
                   cpus_used, memory_used, core_bitmap_used, step_list,
                   next_step_id, last_core_inx, now, suspend_time,
                   agent_queue, job_configuring, node_waiting, end_time,
                   job_time_limit, derived_ec, last_call>>

\* a node of the job has booted and responds, or stops responding
NodeStateChange ==
    \E n \in Nodes :
        /\ node_waiting' = IF n \in node_waiting THEN node_waiting \ {n}
                           ELSE node_waiting \cup {n}
        /\ UNCHANGED <<job_state, up_node_bitmap, core_bitmap, mem_resv,
                       cpus_used, memory_used, core_bitmap_used, step_list,
                       next_step_id, last_core_inx, now, suspend_time,
                       agent_queue, job_configuring, prolog_running,
                       end_time, job_time_limit, derived_ec, last_call>>

NextFirst == FirstStepCreate \/ PrologEnds \/ NodeStateChange \/ Tick

SpecFirst == InitFirst /\ [][NextFirst]_vars

\* the end time a job gets when its first step has to wait for a node
ExtendedEndTime ==
    IF job_time_limit # INFINITE THEN now + job_time_limit * 60
    ELSE end_time

\* C33: while no step of the job has been created, with the prolog over,
\* every step_create that finds a job node powered down or not responding
\* returns nodes-busy, moves end_time to now + the time limit (when
\* finite), leaves the configuring flag and adds no record; and a
\* step_create clears the configuring flag only when every job node is up
\* and responding.
FirstStepWaitsForNodes ==
    \A req \in FirstRequests :
        LET r == step_create(State, req)
        IN  /\ (step_list = << >> /\ ~prolog_running
                    /\ node_bitmap \cap node_waiting # {}) =>
                  /\ r.rc = ESLURM_NODES_BUSY
                  /\ r.st = [State EXCEPT !.end_time = ExtendedEndTime]
            /\ (job_configuring /\ ~r.st.job_configuring) =>
                  node_bitmap \cap node_waiting = {}

\* C40: next_step_id changes only in a step_create that returns success,
\* and then by exactly one.
StepIdConsumedOnlyOnSuccess ==
    [][next_step_id' # next_step_id =>
           /\ last_call'.op = "step_create"
           /\ last_call'.rc = SLURM_SUCCESS
           /\ next_step_id' = next_step_id + 1]_vars

(***************************************************************************)
(* kill_step_on_node: a node of the job went down                          *)
(***************************************************************************)
REQUEST_TERMINATE_TASKS == "REQUEST_TERMINATE_TASKS"

\* signal_step_tasks_on_node without HAVE_FRONT_END: lines 400-427
signal_step_tasks_on_node(queue, node, step, signal, msg_type) ==
    queue \cup {AgentRequest(msg_type, step.step_id, {node}, signal)}

\* a test that spares only the steps off the node
StepSpared_off_node_only(step, node) == node \notin step.step_node_bitmap

\* the steps the loop passes over: lines 2005-2007
StepSpared(step, node) ==
    step.no_kill # 0 \/ node \notin step.step_node_bitmap

\* the loop of kill_step_on_node over the step list, from record k on
RECURSIVE KillLoop(_, _, _, _)
KillLoop(sl, node, k, a) ==
    IF k > Len(sl) THEN a
    ELSE IF StepSpared(sl[k], node) THEN KillLoop(sl, node, k + 1, a)
    ELSE KillLoop(sl, node, k + 1,
             [found |-> a.found + 1,
              queue |-> signal_step_tasks_on_node(a.queue, node, sl[k],
                            SIGKILL, REQUEST_TERMINATE_TASKS)])

\* kill_step_on_node: lines 1992-2018; rc is the count of killed steps
kill_step_on_node(st, node) ==
    LET a == KillLoop(st.step_list, node, 1,
                      [found |-> 0, queue |-> st.agent_queue])
    IN  [rc |-> a.found, st |-> [st EXCEPT !.agent_queue = a.queue]]

\* steps on the first node and on both nodes, with and without no_kill
KillRequests ==
    { [OwnerReq(FALSE, FALSE, mn, mn, mn, 0, 0, {}, NO_VAL)
          EXCEPT !.no_kill = nk] : mn \in {1, 2}, nk \in {0, 1} }

KillStepCreate ==
    \E req \in KillRequests :
        /\ WithinBounds
        /\ \E r \in {step_create(State, req)} :
               /\ Becomes(r.st)
               /\ last_call' = Trace(State, "step_create", r)

KillStepOnNode ==
    \E node \in Nodes :
        \E r \in {kill_step_on_node(State, node)} :
            /\ agent_queue' = r.st.agent_queue
            /\ last_call' = [op |-> "kill_step_on_node", rc |-> r.rc,
                             node |-> node]
            /\ UNCHANGED <<job_state, up_node_bitmap, job_vars,
                           core_bitmap, mem_resv, cpus_used, memory_used,
                           core_bitmap_used, step_list, next_step_id,
                           last_core_inx, now, suspend_time>>

NextKill == KillStepCreate \/ JobStepComplete \/ KillStepOnNode

SpecKill == InitScenario /\ [][NextKill]_vars

\* the positions of the steps of the job that are on the node and have
\* no_kill unset
KilledSteps(node) ==
    { k \in 1 .. Len(step_list) :
        /\ node \in step_list[k].step_node_bitmap
        /\ step_list[k].no_kill = 0 }

\* C34: for every node, kill_step_on_node queues one terminate-tasks
\* request with SIGKILL, addressed to that node alone, for each step of the
\* job that is on the node and has no_kill unset, and for no other step;
\* it returns the number of those steps and changes nothing else in the job
\* record: no step is removed and no debit released.
KillOnNodeSparesNoKill ==
    \A node \in Nodes :
        LET r == kill_step_on_node(State, node)
        IN  /\ r.rc = Cardinality(KilledSteps(node))
            /\ r.st = [State EXCEPT !.agent_queue = @ \cup
                          { AgentRequest(REQUEST_TERMINATE_TASKS,
                                step_list[k].step_id, {node}, SIGKILL) :
                              k \in KilledSteps(node) }]

\* C34 witness: right after kill_step_on_node for node 0 killed one step,
\* with a no_kill step on the same node that got no request, both steps
\* still holding their CPUs
KilledBesideNoKillStep ==
    /\ last_call.op = "kill_step_on_node"
    /\ last_call.rc = 1
    /\ last_call.node = 0
    /\ Len(step_list) = 2
    /\ \E j \in 1 .. 2, k \in 1 .. 2 :
           /\ step_list[j].no_kill = 1
           /\ 0 \in step_list[j].step_node_bitmap
           /\ step_list[k].no_kill = 0
           /\ AgentRequest(REQUEST_TERMINATE_TASKS, step_list[k].step_id,
                           {0}, SIGKILL) \in agent_queue
           /\ \A req \in agent_queue :
                  req.step_id # step_list[j].step_id
    /\ cpus_used[0] > 0

(***************************************************************************)
(* Completion through every step id                                        *)
(***************************************************************************)
\* C35: for every step id, the "first/any" id NO_VAL included, and every
\* caller, job_step_complete either returns success, and then the registry
\* has lost exactly the step with that id, whose debits were released, or
\* returns an error, and then cpus_used, memory_used, core_bitmap_used and
\* the registry are as before.
CompletionIsAllOrNothing ==
    \A step_id \in StepIdInputs, uid \in {JOB_OWNER, "other"} :
        LET r == job_step_complete(State, step_id, uid)
            pos == DeletePos(step_list, step_id)
        IN  IF r.rc = SLURM_SUCCESS
            THEN /\ pos # 0
                 /\ r.st.step_list = RemoveAt(step_list, pos)
                 /\ r.st.cpus_used = _step_dealloc_lps(State, pos).cpus_used
                 /\ r.st.memory_used =
                        _step_dealloc_lps(State, pos).memory_used
                 /\ r.st.core_bitmap_used =
                        _step_dealloc_lps(State, pos).core_bitmap_used
            ELSE /\ r.st.step_list = step_list
                 /\ r.st.cpus_used = cpus_used
                 /\ r.st.memory_used = memory_used
                 /\ r.st.core_bitmap_used = core_bitmap_used

(***************************************************************************)
(* Completion of one step beside other steps that hold cores               *)
(***************************************************************************)
\* the live steps whose cores came from the core picker: exclusive steps
\* with a core bitmap that is not the copy of the job's bitmap
PickedSteps(sl, job_cb) ==
    { k \in 1 .. Len(sl) :
        /\ sl[k].exclusive
        /\ sl[k].have_core_bitmap
        /\ sl[k].core_bitmap_job # job_cb }

\* C36: when job_step_complete removes a step, every core that is marked
\* used and belongs to another live step, one that got its cores from the
\* core picker, is still marked used afterwards.
CompletionKeepsOtherStepsCores ==
    \A i \in 1 .. Len(step_list) :
        LET r == job_step_complete(State, step_list[i].step_id, JOB_OWNER)
        IN  r.rc = SLURM_SUCCESS =>
                \A k \in PickedSteps(r.st.step_list, core_bitmap) :
                    r.st.step_list[k].core_bitmap_job \cap core_bitmap_used
                        \subseteq r.st.core_bitmap_used

(***************************************************************************)
(* Reports that step_partial_comp turns down                               *)
(***************************************************************************)
\* C39: for every non-batch step and every report of the owner, in and out
\* of range, a step_partial_comp that returns an error leaves the step as
\* it was: exit_code, exit_node_bitmap, the accounting aggregated into the
\* step and its switch job.
FailedReportChangesNothing ==
    \A k \in 1 .. Len(step_list) :
        ~step_list[k].batch_step =>
            \A m \in ReportsFor(step_list[k]) :
                LET r == OneReport(State, m)
                IN  r.rc # SLURM_SUCCESS =>
                        r.st.step_list[k] = step_list[k]

(***************************************************************************)
(* What dump_job_step_state reads of a step                                *)
(***************************************************************************)
\* C37: every step in the registry, batch steps included, whose exit_code
\* is not NO_VAL has an exit_node_bitmap.
ExitCodeHasBitmap ==
    \A k \in 1 .. Len(step_list) :
        step_list[k].exit_code # NO_VAL => step_list[k].have_exit_bitmap

(***************************************************************************)
(* The derived exit code of the job                                        *)
(***************************************************************************)
\* C38: derived_ec is never the "unset" exit code NO_VAL, and a successful
\* job_step_complete raises it to the exit code of the step when one was
\* reported and leaves it unchanged when none was.
DerivedEcIsMaxReported ==
    /\ derived_ec # NO_VAL
    /\ \A k \in 1 .. Len(step_list) :
           LET r == job_step_complete(State, step_list[k].step_id,
                                      JOB_OWNER)
           IN  r.rc = SLURM_SUCCESS =>
                   r.st.derived_ec =
                       IF step_list[k].exit_code = NO_VAL THEN derived_ec
                       ELSE MAX(derived_ec, step_list[k].exit_code)

====
